---- MODULE Spec2Model ----
(***************************************************************************)
(* A model of my-auth-package: the token store (four storage backends),    *)
(* the expiry policy, the authenticated HTTP client with its 401           *)
(* interceptor, the auth service built on it and the AuthProvider session  *)
(* controller.                                                             *)
(*                                                                         *)
(* JavaScript values are represented as follows.                           *)
(*   string            a sequence of one-character strings                 *)
(*   null / undefined  NULL / UNDEFINED where a string is expected,        *)
(*                     NONE where a number is expected                     *)
(*   number            an integer (NaN is the integer NaN below)           *)
(*   URL               a sequence of its "/" separators and the texts      *)
(*                     between them                                        *)
(***************************************************************************)
EXTENDS Integers, Sequences, FiniteSets, TLC

VARIABLES
    cfg,        \* authConfig: the module-level configuration object
    httpClient, \* the axios instance of the default auth service
    csrf,       \* the anti-forgery token: the service's csrfToken and the page's
                \* <meta name="csrf-token">
    storage,    \* localStorage, sessionStorage, document.cookie, memoryStorage
    now,        \* the clock, new Date().getTime(), in milliseconds
    last,       \* the last token-store call made, with its arguments and result
    reqs,       \* the requests made through the authenticated HTTP client
    srv,        \* the remote authentication server
    ops,        \* the calls made to the auth service and the AuthProvider
    user,       \* AuthProvider state: the current user
    isLoading,  \* AuthProvider state
    error,      \* AuthProvider state: the last error
    refreshIntervalRef, \* AuthProvider ref: the id of the refresh interval, 0 for null
    intervals,  \* the browser's active intervals (window.setInterval)
    mounted,    \* "no": constructed, "yes": the init effect has run
    prompt      \* VerificationPrompt state: code, validationError, error, ...

session == <<user, isLoading, error, refreshIntervalRef, intervals, mounted>>

vars == <<cfg, httpClient, csrf, storage, now, last, reqs, srv, ops, session,
          prompt>>

-----------------------------------------------------------------------------
(* Bounds of the model.                                                    *)

MaxLifetime == 2        \* lifetimes (seconds) range over 0..MaxLifetime
MaxTicks    == 3        \* the clock advances at most this many times
TickMs      == 500      \* by this many milliseconds each time
StartTime   == 1000     \* the clock's first value
MaxReq      == 4        \* requests put on the wire in one run
MaxCalls    == 2        \* service calls made in one run
MaxFaults   == 1        \* requests the server fails with a 500
MaxSessionCalls == 2    \* calls made through useAuth() and the timer in one run
SessionTicks    == 1    \* the clock's advances while the AuthProvider is up
MaxSessionReq   == 2    \* requests put on the wire while an AuthProvider is mounted
MaxConfigure    == 2    \* calls of configureAuth in one run

-----------------------------------------------------------------------------
(* JavaScript values.                                                      *)

NULL      == <<"null">>
UNDEFINED == <<"undefined">>
NONE      == 0 - 1
NaN       == 0 - 2

\* ToBoolean of a string-or-null value
Truthy(s) == s # NULL /\ s # UNDEFINED /\ s # <<>>
\* ToBoolean of a number-or-null value
TruthyNum(n) == n # NONE /\ n # NaN /\ n # 0

Digits == <<"0", "1", "2", "3", "4", "5", "6", "7", "8", "9">>

IsDigit(c) == \E d \in 1..10 : Digits[d] = c
DigitValue(c) == (CHOOSE d \in 1..10 : Digits[d] = c) - 1

\* Number.prototype.toString() of a non-negative integer
RECURSIVE NumberToString(_)
NumberToString(n) ==
    IF n < 10 THEN <<Digits[n + 1]>>
    ELSE NumberToString(n \div 10) \o <<Digits[(n % 10) + 1]>>

\* parseInt(s, 10): the longest prefix of decimal digits, NaN when there is none
RECURSIVE ParseDigits(_, _, _)
ParseDigits(s, i, acc) ==
    IF i > Len(s) \/ ~IsDigit(s[i]) THEN acc
    ELSE ParseDigits(s, i + 1, acc * 10 + DigitValue(s[i]))

ParseInt(s) ==
    IF Len(s) = 0 \/ ~IsDigit(s[1]) THEN NaN ELSE ParseDigits(s, 1, 0)

\* the characters encodeURIComponent leaves alone, among those the model uses
Unreserved == {"A", "B", "C", "R", "U"} \cup {Digits[d] : d \in 1..10}

\* the percent-escape of a reserved character
Escape(c) ==
    CASE c = "=" -> <<"%", "3", "D">>
      [] c = ";" -> <<"%", "3", "B">>
      [] OTHER   -> <<"%", "2", "5">>

Unescape(h) ==
    CASE h = <<"3", "D">> -> "="
      [] h = <<"3", "B">> -> ";"
      [] OTHER            -> "%"

RECURSIVE EncodeURIComponent(_)
EncodeURIComponent(s) ==
    IF s = <<>> THEN <<>>
    ELSE (IF Head(s) \in Unreserved THEN <<Head(s)>> ELSE Escape(Head(s)))
         \o EncodeURIComponent(Tail(s))

RECURSIVE DecodeURIComponent(_)
DecodeURIComponent(s) ==
    IF s = <<>> THEN <<>>
    ELSE IF Head(s) = "%" /\ Len(s) >= 3
         THEN <<Unescape(SubSeq(s, 2, 3))>> \o DecodeURIComponent(SubSeq(s, 4, Len(s)))
         ELSE <<Head(s)>> \o DecodeURIComponent(Tail(s))


-----------------------------------------------------------------------------
(* The configuration (config/authConfig).                                  *)

Endpoint(name) == <<"/", "auth", "/", name>>

defaultConfig ==
    [baseUrl   |-> <<>>,
     endpoints |-> [login         |-> Endpoint("login"),
                    register      |-> Endpoint("register"),
                    logout        |-> Endpoint("logout"),
                    refresh       |-> Endpoint("refresh"),
                    passwordReset |-> Endpoint("password-reset"),
                    verifyEmail   |-> Endpoint("verify-email"),
                    resendCode    |-> Endpoint("resend-code")],
     tokenStorage            |-> "localStorage",
     tokenExpiration         |-> 3600,
     cookieOptions           |-> [path |-> "/"],
     autoRefresh             |-> TRUE,
     refreshBeforeExpiration |-> 300]

\* String.prototype.startsWith('/') and endsWith('/')
StartsWithSlash(s) == Len(s) > 0 /\ s[1] = "/"
EndsWithSlash(s)   == Len(s) > 0 /\ s[Len(s)] = "/"

\* { ...a, ...c }
Spread(a, c) ==
    [k \in DOMAIN a \cup DOMAIN c |-> IF k \in DOMAIN c THEN c[k] ELSE a[k]]

\* the forEach of configureAuth: endpoint.substring(1) for the endpoints
\* that start with a slash
StripLeadingSlashes(endpoints) ==
    [key \in DOMAIN endpoints |->
        IF StartsWithSlash(endpoints[key]) THEN Tail(endpoints[key])
        ELSE endpoints[key]]

ValidTokenStorage == {"localStorage", "sessionStorage", "cookie", "memory"}

\* configureAuth(config): what it throws ("" when it returns) and the
\* authConfig it leaves; config is a record of the properties passed
ConfigureAuthOutcome(c, config) ==
    IF /\ "tokenStorage" \in DOMAIN config
       /\ config.tokenStorage # ""
       /\ config.tokenStorage \notin ValidTokenStorage
    THEN [threw |-> "Invalid token storage type", authConfig |-> c]
    ELSE LET merged == Spread(c, config) IN
         [threw      |-> "",
          authConfig |-> IF EndsWithSlash(merged.baseUrl)
                         THEN [merged EXCEPT !.endpoints = StripLeadingSlashes(@)]
                         ELSE merged]

\* getFullUrl(endpoint)
getFullUrl(c, endpoint) == c.baseUrl \o c.endpoints[endpoint]

\* createAuthHttpClient(config): axios.create({ baseURL: config.baseUrl })
createAuthHttpClient(config) == [baseURL |-> config.baseUrl]

\* the path literals of createAuthService, as URLs
Path(url) ==
    CASE url = "/auth/login"          -> Endpoint("login")
      [] url = "/auth/register"       -> Endpoint("register")
      [] url = "/auth/logout"         -> Endpoint("logout")
      [] url = "/auth/refresh"        -> Endpoint("refresh")
      [] url = "/auth/password-reset" -> Endpoint("password-reset")
      [] url = "/auth/verify-email"   -> Endpoint("verify-email")
      [] url = "/auth/resend-code"    -> Endpoint("resend-code")
      [] OTHER                        -> Endpoint("me")

\* s.replace(/\/+$/, '') and s.replace(/^\/+/, '')
RECURSIVE StripTrailingSlashes(_)
StripTrailingSlashes(s) ==
    IF EndsWithSlash(s) THEN StripTrailingSlashes(SubSeq(s, 1, Len(s) - 1)) ELSE s

RECURSIVE StripLeading(_)
StripLeading(s) == IF StartsWithSlash(s) THEN StripLeading(Tail(s)) ELSE s

\* axios: the URL a request of the instance goes to, for a relative
\* requestedURL (combineURLs when a baseURL is set)
buildFullPath(baseURL, requestedURL) ==
    IF baseURL = <<>> THEN requestedURL
    ELSE IF requestedURL = <<>> THEN baseURL
    ELSE StripTrailingSlashes(baseURL) \o <<"/">> \o StripLeading(requestedURL)

\* no anti-forgery token: csrfToken is null and the page has no meta tag
NoCsrf == [token |-> NULL, meta |-> NULL]

\* VerificationPrompt: the useState values of a freshly rendered prompt;
\* call is the verifyEmail call handleSubmit awaits, 0 for none
NoPrompt ==
    [code |-> <<>>, validationError |-> NULL, error |-> NULL,
     verified |-> FALSE, isSubmitting |-> FALSE, call |-> 0]

-----------------------------------------------------------------------------
(* The browser: Web Storage and the cookie jar.                            *)

StorageKeys == {"auth_token", "auth_refresh_token", "auth_token_expiration", "auth_user"}

EmptyWebStorage == [k \in StorageKeys |-> NULL]

\* Storage.getItem / setItem / removeItem on one of the two Web Storage areas
getItem(area, key) == area[key]
setItem(area, key, value) == [area EXCEPT ![key] = value]
removeItem(area, key) == [area EXCEPT ![key] = NULL]

\* Date.prototype.toUTCString() has a resolution of one second
ToUTCString(ms) == (ms \div 1000) * 1000

\* `document.cookie = ...`: the jar keeps one cookie per (name, path); a cookie
\* whose expires date is not in the future is dropped.
AssignCookie(jar, t, c) ==
    LET others == {d \in jar : ~(d.name = c.name /\ d.path = c.path)}
    IN  IF c.expires > t THEN others \cup {c} ELSE others

\* reading document.cookie: the cookies that have not expired
VisibleCookies(jar, t) == {c \in jar : c.expires > t}

-----------------------------------------------------------------------------
(* Cookie utilities (services/authService).                                *)

setCookie(c, st, t, name, value, expires) ==
    [st EXCEPT !.cookie =
        AssignCookie(st.cookie, t,
            [name    |-> name,
             value   |-> EncodeURIComponent(value),
             expires |-> ToUTCString(expires),
             path    |-> c.cookieOptions.path])]

getCookie(st, t, name) ==
    LET parts == {k \in VisibleCookies(st.cookie, t) : k.name = name}
    IN  IF Cardinality(parts) = 1
        THEN DecodeURIComponent((CHOOSE k \in parts : TRUE).value)
        ELSE NULL

removeCookie(c, st, t, name) ==
    [st EXCEPT !.cookie =
        AssignCookie(st.cookie, t,
            [name    |-> name,
             value   |-> <<>>,
             expires |-> 0,
             path    |-> c.cookieOptions.path])]

-----------------------------------------------------------------------------
(* Token handling (services/authService).                                  *)

NoTokens == [token |-> NULL, refreshToken |-> NULL, expiresAt |-> NONE]

getStoredTokens(c, st, t) ==
    CASE c.tokenStorage = "localStorage" ->
            [token        |-> getItem(st.localStorage, "auth_token"),
             refreshToken |-> getItem(st.localStorage, "auth_refresh_token"),
             expiresAt    |->
                IF Truthy(getItem(st.localStorage, "auth_token_expiration"))
                THEN ParseInt(getItem(st.localStorage, "auth_token_expiration"))
                ELSE NONE]
      [] c.tokenStorage = "sessionStorage" ->
            [token        |-> getItem(st.sessionStorage, "auth_token"),
             refreshToken |-> getItem(st.sessionStorage, "auth_refresh_token"),
             expiresAt    |->
                IF Truthy(getItem(st.sessionStorage, "auth_token_expiration"))
                THEN ParseInt(getItem(st.sessionStorage, "auth_token_expiration"))
                ELSE NONE]
      [] c.tokenStorage = "cookie" ->
            [token        |-> getCookie(st, t, "auth_token"),
             refreshToken |-> getCookie(st, t, "auth_refresh_token"),
             expiresAt    |->
                IF Truthy(getCookie(st, t, "auth_token_expiration"))
                THEN ParseInt(getCookie(st, t, "auth_token_expiration"))
                ELSE NONE]
      [] c.tokenStorage = "memory" ->
            [token        |-> st.memory.token,
             refreshToken |-> st.memory.refreshToken,
             expiresAt    |-> st.memory.tokenExpiration]
      [] OTHER -> NoTokens

\* const expiresAt = now.getTime() + (expiresIn || config.tokenExpiration) * 1000
ExpiresAt(c, t, expiresIn) ==
    t + (IF TruthyNum(expiresIn) THEN expiresIn ELSE c.tokenExpiration) * 1000

storeTokens(c, st, t, token, refreshToken, expiresIn) ==
    LET expiresAt == ExpiresAt(c, t, expiresIn) IN
    CASE c.tokenStorage = "localStorage" ->
            LET a1 == setItem(st.localStorage, "auth_token", token)
                a2 == setItem(a1, "auth_token_expiration", NumberToString(expiresAt))
                a3 == IF Truthy(refreshToken)
                      THEN setItem(a2, "auth_refresh_token", refreshToken)
                      ELSE a2
            IN  [st EXCEPT !.localStorage = a3]
      [] c.tokenStorage = "sessionStorage" ->
            LET a1 == setItem(st.sessionStorage, "auth_token", token)
                a2 == setItem(a1, "auth_token_expiration", NumberToString(expiresAt))
                a3 == IF Truthy(refreshToken)
                      THEN setItem(a2, "auth_refresh_token", refreshToken)
                      ELSE a2
            IN  [st EXCEPT !.sessionStorage = a3]
      [] c.tokenStorage = "cookie" ->
            LET s1 == setCookie(c, st, t, "auth_token", token, expiresAt)
                s2 == setCookie(c, s1, t, "auth_token_expiration",
                                NumberToString(expiresAt), expiresAt)
            IN  IF Truthy(refreshToken)
                THEN setCookie(c, s2, t, "auth_refresh_token", refreshToken, expiresAt)
                ELSE s2
      [] c.tokenStorage = "memory" ->
            [st EXCEPT !.memory =
                [token           |-> token,
                 refreshToken    |-> IF Truthy(refreshToken) THEN refreshToken ELSE NULL,
                 tokenExpiration |-> expiresAt]]
      [] OTHER -> st

\* clearTokens leaving the refresh token behind in Web Storage
clearTokensKeepsRefresh(c, st, t) ==
    CASE c.tokenStorage = "localStorage" ->
            [st EXCEPT !.localStorage =
                removeItem(removeItem(@, "auth_token"), "auth_token_expiration")]
      [] c.tokenStorage = "sessionStorage" ->
            [st EXCEPT !.sessionStorage =
                removeItem(removeItem(@, "auth_token"), "auth_token_expiration")]
      [] c.tokenStorage = "cookie" ->
            removeCookie(c, removeCookie(c, st, t, "auth_token"),
                t, "auth_token_expiration")
      [] c.tokenStorage = "memory" ->
            [st EXCEPT !.memory =
                [token |-> NULL, refreshToken |-> NULL, tokenExpiration |-> NONE]]
      [] OTHER -> st

clearTokens(c, st, t) ==
    CASE c.tokenStorage = "localStorage" ->
            [st EXCEPT !.localStorage =
                removeItem(removeItem(removeItem(@, "auth_token"),
                    "auth_refresh_token"), "auth_token_expiration")]
      [] c.tokenStorage = "sessionStorage" ->
            [st EXCEPT !.sessionStorage =
                removeItem(removeItem(removeItem(@, "auth_token"),
                    "auth_refresh_token"), "auth_token_expiration")]
      [] c.tokenStorage = "cookie" ->
            removeCookie(c,
                removeCookie(c,
                    removeCookie(c, st, t, "auth_token"),
                    t, "auth_refresh_token"),
                t, "auth_token_expiration")
      [] c.tokenStorage = "memory" ->
            [st EXCEPT !.memory =
                [token |-> NULL, refreshToken |-> NULL, tokenExpiration |-> NONE]]
      [] OTHER -> st

-----------------------------------------------------------------------------
(* Token validation (services/authService).                                *)

\* shouldRefreshToken with an inclusive threshold
shouldRefreshTokenInclusive(c, st, t) ==
    IF ~c.autoRefresh THEN FALSE
    ELSE LET expiresAt == getStoredTokens(c, st, t).expiresAt IN
         IF ~TruthyNum(expiresAt) THEN FALSE
         ELSE expiresAt - t <= c.refreshBeforeExpiration * 1000

shouldRefreshToken(c, st, t) ==
    IF ~c.autoRefresh THEN FALSE
    ELSE LET expiresAt == getStoredTokens(c, st, t).expiresAt IN
         IF ~TruthyNum(expiresAt) THEN FALSE
         ELSE expiresAt - t < c.refreshBeforeExpiration * 1000

\* isTokenExpired with a strict comparison
isTokenExpiredStrict(c, st, t) ==
    LET expiresAt == getStoredTokens(c, st, t).expiresAt IN
    IF ~TruthyNum(expiresAt) THEN TRUE
    ELSE t > expiresAt

isTokenExpired(c, st, t) ==
    LET expiresAt == getStoredTokens(c, st, t).expiresAt IN
    IF ~TruthyNum(expiresAt) THEN TRUE
    ELSE t >= expiresAt

-----------------------------------------------------------------------------
(* Token storage utilities of the HTTP client (infrastructure/http).       *)

httpGetStoredToken(c, st, t) ==
    CASE c.tokenStorage = "localStorage"   -> getItem(st.localStorage, "auth_token")
      [] c.tokenStorage = "sessionStorage" -> getItem(st.sessionStorage, "auth_token")
      [] c.tokenStorage = "cookie"         -> getCookie(st, t, "auth_token")
      [] c.tokenStorage = "memory"         -> st.memory.token
      [] OTHER                             -> NULL

httpGetStoredTokens(c, st, t) ==
    CASE c.tokenStorage = "localStorage" ->
            [token        |-> getItem(st.localStorage, "auth_token"),
             refreshToken |-> getItem(st.localStorage, "auth_refresh_token")]
      [] c.tokenStorage = "sessionStorage" ->
            [token        |-> getItem(st.sessionStorage, "auth_token"),
             refreshToken |-> getItem(st.sessionStorage, "auth_refresh_token")]
      [] c.tokenStorage = "cookie" ->
            [token        |-> getCookie(st, t, "auth_token"),
             refreshToken |-> getCookie(st, t, "auth_refresh_token")]
      [] c.tokenStorage = "memory" ->
            [token        |-> st.memory.token,
             refreshToken |-> st.memory.refreshToken]
      [] OTHER -> [token |-> NULL, refreshToken |-> NULL]

\* the client's own storeTokens and clearTokens repeat the service's line by line
httpStoreTokens(c, st, t, token, refreshToken, expiresIn) ==
    storeTokens(c, st, t, token, refreshToken, expiresIn)

httpClearTokens(c, st, t) == clearTokens(c, st, t)

-----------------------------------------------------------------------------
(* Security utilities of the service's direct API (api/authService).       *)

\* getCsrfToken(): the token, and csrfToken as the call leaves it
getCsrfToken(c, st, t) ==
    IF Truthy(c.token) THEN [value |-> c.token, csrf |-> c]
    ELSE IF Truthy(c.meta)
    THEN [value |-> c.meta, csrf |-> [c EXCEPT !.token = c.meta]]
    ELSE LET first      == getCookie(st, t, "csrf-token")
             csrfCookie == IF Truthy(first) THEN first
                           ELSE getCookie(st, t, "XSRF-TOKEN")
         IN  IF Truthy(csrfCookie)
             THEN [value |-> csrfCookie, csrf |-> [c EXCEPT !.token = csrfCookie]]
             ELSE [value |-> NULL, csrf |-> c]

\* options?.headers
HeadersOf(options) ==
    IF "headers" \in DOMAIN options THEN options.headers ELSE <<>>

\* includeCsrf(options), given what getCsrfToken() returned
includeCsrf(options, token) ==
    IF ~Truthy(token) THEN options
    ELSE Spread(options,
             [headers |-> Spread(HeadersOf(options),
                              ("X-CSRF-Token" :> token) @@ ("X-XSRF-Token" :> token))])

\* createAuthenticatedRequest(options), given the stored access token and
\* what getCsrfToken() returned; "Bearer <token>" is modelled by the token
createAuthenticatedRequest(options, token, csrfToken) ==
    Spread(Spread(includeCsrf(options, csrfToken), [withCredentials |-> TRUE]),
           [headers |-> Spread(HeadersOf(options),
                            [Authorization |-> IF Truthy(token) THEN token ELSE <<>>])])

\* the value of a header of a request config, NULL when it is not set
Header(config, name) ==
    IF name \in DOMAIN HeadersOf(config) /\ HeadersOf(config)[name] # <<>>
    THEN HeadersOf(config)[name]
    ELSE NULL

-----------------------------------------------------------------------------
(* Responses and errors.                                                   *)

NoData == [user |-> UNDEFINED,
           token |-> [accessToken |-> UNDEFINED, refreshToken |-> UNDEFINED,
                      expiresIn |-> NONE]]

\* the `message` and `code` of a response body, "" for a field it lacks
NoBody == [message |-> "", code |-> ""]

NoResponse == [status |-> NONE, data |-> NoData, body |-> NoBody]

\* the error axios rejects with: `response` is the server's answer, with
\* status NONE when the request failed without one (a network error)
AxiosError(response) ==
    [isAxiosError |-> TRUE, status |-> response.status, data |-> response.body,
     message |-> IF response.status = NONE THEN "Network Error"
                 ELSE "Request failed with status code"]

\* new Error(message)
PlainError(message) ==
    [isAxiosError |-> FALSE, status |-> NONE, data |-> NoBody, message |-> message]

NoError == [isAxiosError |-> FALSE, status |-> NONE, data |-> NoBody, message |-> ""]

\* a createAuthError that leaves the status out
createAuthErrorNoStatus(e) ==
    IF e.isAxiosError
    THEN [message |-> IF e.data.message # "" THEN e.data.message ELSE e.message,
          code    |-> IF e.data.code # "" THEN e.data.code ELSE "request_error",
          status  |-> NONE]
    ELSE [message |-> e.message, code |-> "unknown_error", status |-> NONE]

createAuthError(e) ==
    IF e.isAxiosError
    THEN [message |-> IF e.data.message # "" THEN e.data.message ELSE e.message,
          code    |-> IF e.data.code # "" THEN e.data.code ELSE "request_error",
          status  |-> e.status]
    ELSE [message |-> e.message, code |-> "unknown_error", status |-> NONE]

\* the null of an AuthError-valued cell
NullError == [message |-> "", code |-> "", status |-> NONE]

\* new AuthError(message, code, status)
AuthError(message, code, status) ==
    [message |-> message, code |-> code, status |-> status]

-----------------------------------------------------------------------------
(* The remote authentication server: access tokens are checked against the *)
(* set of valid ones, a refresh token is usable once.                      *)

AccessTok(g)  == <<"A", Digits[g + 1]>>
RefreshTok(g) == <<"R", Digits[g + 1]>>
UserOf(g)     == <<"U", "1">>

ServerLifetime == MaxLifetime

GoodCredentials == <<"g", "o", "o", "d">>
BadCredentials  == <<"b", "a", "d">>

\* the data of a password-reset, verify-email or resend-code request that
\* the server accepts, and data it refuses
GoodData == <<"o", "k">>
BadData  == <<"n", "o">>

\* the verification code the server sent out, and one it did not
GoodCode == <<"1", "2", "3", "4", "5", "6">>
BadCode  == <<"6", "5", "4", "3", "2", "1">>

PassThrough == {"resetPassword", "verifyEmail", "resendCode"}

Issue(s) ==
    LET g == s.gen + 1 IN
    [srv  |-> [s EXCEPT !.gen = g, !.access = @ \cup {AccessTok(g)},
                        !.refresh = @ \cup {RefreshTok(g)}],
     resp |-> [status |-> 200, body |-> NoBody,
               data |-> [user  |-> UserOf(g),
                         token |-> [accessToken  |-> AccessTok(g),
                                    refreshToken |-> RefreshTok(g),
                                    expiresIn    |-> ServerLifetime]]]]

\* the body the server sends with an error status: { message, code } when it
\* is one that describes its errors, nothing otherwise
ErrorBody(s, status) ==
    IF s.verbose
    THEN CASE status = 401 ->
                 [message |-> "Unauthorized", code |-> "unauthorized"]
           [] status = 409 ->
                 [message |-> "Conflict", code |-> "conflict"]
           [] status = 400 ->
                 [message |-> "Bad Request", code |-> "bad_request"]
           [] OTHER ->
                 [message |-> "Internal Server Error", code |-> "server_error"]
    ELSE NoBody

ErrorResponse(s, status) ==
    [status |-> status, data |-> NoData, body |-> ErrorBody(s, status)]

Unauthorized(s) == [srv |-> s, resp |-> ErrorResponse(s, 401)]

Serve(s, r) ==
    CASE r.url = "/auth/refresh" ->
            IF r.body \in s.refresh
            THEN Issue([s EXCEPT !.refresh = @ \ {r.body}])
            ELSE Unauthorized(s)
      [] r.url = "/auth/me" ->
            IF r.auth \in s.access
            THEN [srv |-> s, resp |-> [status |-> 200, body |-> NoBody,
                    data |-> [NoData EXCEPT !.user = UserOf(s.gen)]]]
            ELSE Unauthorized(s)
      [] r.url = "/auth/login" ->
            IF r.body = GoodCredentials THEN Issue(s) ELSE Unauthorized(s)
      [] r.url = "/auth/register" ->
            IF r.body = GoodCredentials
            THEN Issue(s)
            ELSE [srv |-> s, resp |-> ErrorResponse(s, 409)]
      [] r.url = "/auth/logout" ->
            IF r.auth \in s.access
            THEN [srv |-> [s EXCEPT !.access = {}, !.refresh = {}],
                  resp |-> [status |-> 200, data |-> NoData, body |-> NoBody]]
            ELSE Unauthorized(s)
      [] r.url \in {"/auth/password-reset", "/auth/verify-email",
                    "/auth/resend-code"} ->
            IF r.body \in {GoodData, GoodCode}
            THEN [srv |-> s, resp |-> [status |-> 200, data |-> NoData,
                                       body |-> NoBody]]
            ELSE [srv |-> s, resp |-> ErrorResponse(s, 400)]
      [] OTHER -> Unauthorized(s)

-----------------------------------------------------------------------------
(* The authenticated HTTP client (infrastructure/http).  A request record  *)
(* is the axios request config together with the state of its promise.     *)
(*   st      "sent": on the wire; "answered": the response has arrived and *)
(*           its handler has not run yet; "refreshing": the 401 handler    *)
(*           awaits the refresh it posted; "resolved" / "rejected"         *)
(*   owner   who awaits the promise: the 401 handler of another request    *)
(*           ("interceptor") or a service call ("op")                      *)
(*   root    the service call on whose behalf the request was made         *)

World ==
    [reqs |-> reqs, storage |-> storage, ops |-> ops, blocked |-> FALSE,
     user |-> user, isLoading |-> isLoading, error |-> error,
     refreshIntervalRef |-> refreshIntervalRef, intervals |-> intervals,
     mounted |-> mounted]

\* the request interceptor, then the wire
Transmit(W, i) ==
    LET token == httpGetStoredToken(cfg, W.storage, now) IN
    [W EXCEPT !.reqs[i].auth = IF Truthy(token) THEN token ELSE @,
              !.reqs[i].st = "sent",
              !.reqs[i].sends = @ + 1]

\* instance.get(url) / instance.post(url, body)
Request(W, url, body, owner, root) ==
    IF Len(W.reqs) >= (IF W.mounted = "yes" THEN MaxSessionReq ELSE MaxReq)
    THEN [W EXCEPT !.blocked = TRUE]
    ELSE LET i == Len(W.reqs) + 1
             r == [url |-> url, body |-> body, auth |-> NULL, retry |-> FALSE,
                   target |-> buildFullPath(httpClient.baseURL, Path(url)),
                   csrf |-> NULL,
                   st |-> "new", sends |-> 0, resp |-> NoResponse,
                   err |-> NoError, owner |-> owner, root |-> root, child |-> 0]
         IN  Transmit([W EXCEPT !.reqs = Append(@, r)], i)

\* JSON.stringify of a user object, and of undefined
JSONStringify(u) == IF u = UNDEFINED THEN UNDEFINED ELSE <<"{">> \o u \o <<"}">>

\* String(value), as Storage.setItem applies it to its argument
ToStr(v) == IF v = UNDEFINED THEN <<"u", "n", "d", "e", "f", "i", "n", "e", "d">> ELSE v

IsJSON(s) == Len(s) >= 2 /\ s[1] = "{" /\ s[Len(s)] = "}"
JSONParse(s) == SubSeq(s, 2, Len(s) - 1)

\* window.setInterval returns an id no active or remembered interval has
SetInterval(W) ==
    CHOOSE id \in 1..(Cardinality(W.intervals) + 2) :
        id \notin W.intervals /\ id # W.refreshIntervalRef

\* a startRefreshTokenInterval that does not clear the interval it replaces
startRefreshTokenIntervalKeepsOld(W) ==
    IF ~cfg.autoRefresh THEN W
    ELSE LET id == SetInterval(W) IN
         [W EXCEPT !.intervals = @ \cup {id}, !.refreshIntervalRef = id]

\* AuthContext: startRefreshTokenInterval
startRefreshTokenInterval(W) ==
    LET W1 == IF W.refreshIntervalRef # 0
              THEN [W EXCEPT !.intervals = @ \ {W.refreshIntervalRef}]
              ELSE W
    IN  IF ~cfg.autoRefresh THEN W1
        ELSE LET id == SetInterval(W1) IN
             [W1 EXCEPT !.intervals = @ \cup {id}, !.refreshIntervalRef = id]

\* AuthContext: stopRefreshTokenInterval
stopRefreshTokenInterval(W) ==
    IF W.refreshIntervalRef # 0
    THEN [W EXCEPT !.intervals = @ \ {W.refreshIntervalRef},
                   !.refreshIntervalRef = 0]
    ELSE W

\* a storeUser that persists the user without setting the user state
storeUserOnlyPersists(W, userData) ==
    [W EXCEPT !.storage.localStorage =
                  setItem(@, "auth_user", ToStr(JSONStringify(userData)))]

\* AuthContext: storeUser
storeUser(W, userData) ==
    [W EXCEPT !.storage.localStorage =
                  setItem(@, "auth_user", ToStr(JSONStringify(userData))),
              !.user = userData]

\* AuthContext: clearUserAndTokens
clearUserAndTokens(W) ==
    [W EXCEPT !.storage =
                  [clearTokens(cfg, @, now) EXCEPT
                      !.localStorage = removeItem(@, "auth_user")],
              !.user = NULL,
              !.error = NullError]

\* services/authService: handleAuthResponse on a successful response
handleAuthResponse(W, data) ==
    [W EXCEPT !.storage = storeTokens(cfg, @, now, data.token.accessToken,
                              data.token.refreshToken, data.token.expiresIn)]

\* a refreshToken whose catch block only records the error
RefreshTokenSettledKeepsSession(W, k, ok, data, e) ==
    IF ok
    THEN LET W1 == storeUser(handleAuthResponse(W, data), data.user)
         IN  [W1 EXCEPT !.isLoading = FALSE, !.ops[k].st = "resolved",
                         !.ops[k].success = TRUE]
    ELSE LET W2 == [W EXCEPT !.error = e, !.isLoading = FALSE,
                             !.ops[k].st = "rejected", !.ops[k].error = e]
         IN  IF W.ops[k].origin = "init"
             THEN [clearUserAndTokens(W2) EXCEPT !.isLoading = FALSE]
             ELSE W2

\* AuthContext.refreshToken from `const result = await apiRefreshToken()` on;
\* e is the error the service returned when ok is false
RefreshTokenSettled(W, k, ok, data, e) ==
    IF ok
    THEN LET W1 == storeUser(handleAuthResponse(W, data), data.user)
         IN  [W1 EXCEPT !.isLoading = FALSE, !.ops[k].st = "resolved",
                         !.ops[k].success = TRUE]
    ELSE LET W1 == [clearUserAndTokens(W) EXCEPT !.error = e]
             W2 == [W1 EXCEPT !.isLoading = FALSE, !.ops[k].st = "rejected",
                              !.ops[k].error = e]
         IN  IF W.ops[k].origin = "init"
             THEN \* the init effect's .catch() and .finally()
                  [clearUserAndTokens(W2) EXCEPT !.isLoading = FALSE]
             ELSE W2

\* a callback prop of the AuthProvider invoked with a user or an error
Callback(name, userData, e) == [name |-> name, user |-> userData, error |-> e]

\* a login that does not record the failure in the error state
LoginSettledNoError(W, k, ok, data, e) ==
    IF ok
    THEN LET W1 == storeUser(handleAuthResponse(W, data), data.user)
             W2 == startRefreshTokenInterval(W1)
         IN  [W2 EXCEPT !.isLoading = FALSE, !.ops[k].st = "resolved",
                         !.ops[k].success = TRUE,
                         !.ops[k].callbacks =
                             Append(@, Callback("onLoginSuccess", data.user, NullError))]
    ELSE [W EXCEPT !.isLoading = FALSE,
                   !.ops[k].st = "rejected", !.ops[k].error = e,
                   !.ops[k].callbacks = Append(@, Callback("onLoginError", NULL, e))]

\* a login that does not start the refresh interval
LoginSettledNoInterval(W, k, ok, data, e) ==
    IF ok
    THEN LET W1 == storeUser(handleAuthResponse(W, data), data.user)
         IN  [W1 EXCEPT !.isLoading = FALSE, !.ops[k].st = "resolved",
                         !.ops[k].success = TRUE,
                         !.ops[k].callbacks =
                             Append(@, Callback("onLoginSuccess", data.user, NullError))]
    ELSE [W EXCEPT !.error = e, !.isLoading = FALSE,
                   !.ops[k].st = "rejected", !.ops[k].error = e,
                   !.ops[k].callbacks = Append(@, Callback("onLoginError", NULL, e))]

\* what an observer finds when a callback prop is invoked: the token store,
\* the persisted user, and the state the provider has set so far
Observe(W) ==
    [tokens |-> getStoredTokens(cfg, W.storage, now),
     storedUser |-> getItem(W.storage.localStorage, "auth_user"),
     user |-> W.user, error |-> W.error,
     refreshIntervalRef |-> W.refreshIntervalRef, intervals |-> W.intervals]

\* onLoginSuccess?.(user), onLoginError?.(error), ... of call k
Invoke(W, k, callback) ==
    [W EXCEPT !.ops[k].callbacks = Append(@, callback),
              !.ops[k].seen = Append(@, Observe(W))]

\* a login that invokes its callback before anything else
LoginSettledCallbackFirst(W, k, ok, data, e) ==
    IF ok
    THEN LET W0 == Invoke(W, k, Callback("onLoginSuccess", data.user, NullError))
             W1 == storeUser(handleAuthResponse(W0, data), data.user)
             W2 == startRefreshTokenInterval(W1)
         IN  [W2 EXCEPT !.isLoading = FALSE, !.ops[k].st = "resolved",
                         !.ops[k].success = TRUE]
    ELSE LET W0 == Invoke(W, k, Callback("onLoginError", NULL, e))
         IN  [W0 EXCEPT !.error = e, !.isLoading = FALSE,
                         !.ops[k].st = "rejected", !.ops[k].error = e]

\* AuthContext.login from `const result = await apiLogin(credentials)` on
LoginSettled(W, k, ok, data, e) ==
    IF ok
    THEN LET W1 == storeUser(handleAuthResponse(W, data), data.user)
             W2 == startRefreshTokenInterval(W1)
             W3 == Invoke(W2, k, Callback("onLoginSuccess", data.user, NullError))
         IN  [W3 EXCEPT !.isLoading = FALSE, !.ops[k].st = "resolved",
                         !.ops[k].success = TRUE]
    ELSE LET W1 == [W EXCEPT !.error = e]
             W2 == Invoke(W1, k, Callback("onLoginError", NULL, e))
         IN  [W2 EXCEPT !.isLoading = FALSE,
                         !.ops[k].st = "rejected", !.ops[k].error = e]

\* AuthContext.register from `const result = await apiRegister(credentials)` on
RegisterSettled(W, k, ok, data, e) ==
    IF ok
    THEN LET W1 == storeUser(handleAuthResponse(W, data), data.user)
             W2 == startRefreshTokenInterval(W1)
             W3 == Invoke(W2, k, Callback("onRegisterSuccess", data.user, NullError))
         IN  [W3 EXCEPT !.isLoading = FALSE, !.ops[k].st = "resolved",
                         !.ops[k].success = TRUE]
    ELSE LET W1 == [W EXCEPT !.error = e]
             W2 == Invoke(W1, k, Callback("onRegisterError", NULL, e))
         IN  [W2 EXCEPT !.isLoading = FALSE,
                         !.ops[k].st = "rejected", !.ops[k].error = e]

\* a logout whose catch block only records the error
LogoutSettledKeepsSession(W, k, ok, e) ==
    IF ok
    THEN LET W1 == [W EXCEPT !.storage = clearTokens(cfg, @, now)]
             W2 == clearUserAndTokens(stopRefreshTokenInterval(W1))
         IN  [W2 EXCEPT !.isLoading = FALSE, !.ops[k].st = "resolved",
                         !.ops[k].success = TRUE,
                         !.ops[k].callbacks =
                             Append(@, Callback("onLogoutSuccess", NULL, NullError))]
    ELSE [W EXCEPT !.error = e, !.isLoading = FALSE,
                   !.ops[k].st = "rejected", !.ops[k].error = e,
                   !.ops[k].callbacks =
                       Append(@, Callback("onLogoutSuccess", NULL, NullError))]

\* AuthContext.logout from `const result = await apiLogout()` on
LogoutSettled(W, k, ok, e) ==
    IF ok
    THEN LET W1 == [W EXCEPT !.storage = clearTokens(cfg, @, now)]
             W2 == clearUserAndTokens(stopRefreshTokenInterval(W1))
             W3 == Invoke(W2, k, Callback("onLogoutSuccess", NULL, NullError))
         IN  [W3 EXCEPT !.isLoading = FALSE, !.ops[k].st = "resolved",
                         !.ops[k].success = TRUE]
    ELSE LET W1 == clearUserAndTokens(stopRefreshTokenInterval(W))
             W2 == Invoke([W1 EXCEPT !.error = e], k,
                          Callback("onLogoutSuccess", NULL, NullError))
         IN  [W2 EXCEPT !.isLoading = FALSE,
                         !.ops[k].st = "rejected", !.ops[k].error = e]

\* a resetPassword, verifyEmail or resendCode that logs the user out when it
\* fails
PassThroughSettledLogsOut(W, k, ok, e) ==
    IF ok
    THEN [W EXCEPT !.ops[k].st = "resolved", !.ops[k].success = TRUE]
    ELSE [clearUserAndTokens(W) EXCEPT
             !.error = e, !.ops[k].st = "rejected", !.ops[k].error = e]

\* AuthContext.resetPassword, verifyEmail and resendCode from
\* `const result = await api...(data)` on
PassThroughSettled(W, k, ok, e) ==
    IF ok
    THEN [W EXCEPT !.ops[k].st = "resolved", !.ops[k].success = TRUE]
    ELSE [W EXCEPT !.error = e, !.ops[k].st = "rejected", !.ops[k].error = e]

\* the error createAuthService.refreshToken returns when its request fails
RefreshError(e) ==
    AuthError("Token refresh failed", "refresh_error",
              IF e.isAxiosError THEN e.status ELSE NONE)

\* services/authService: logout, from `await httpClient.post('/auth/logout')`
\* on: clearTokens() after a successful call, err(...) after a failed one
ServiceLogoutSettled(W, k, ok, e) ==
    IF ok
    THEN [W EXCEPT !.storage = clearTokens(cfg, @, now),
                   !.ops[k].st = "resolved", !.ops[k].success = TRUE]
    ELSE [W EXCEPT !.ops[k].st = "resolved", !.ops[k].success = FALSE,
                   !.ops[k].error = e]

\* the continuation of a service call whose request has settled
OpSettled(W, k, ok, data, e) ==
    CASE W.ops[k].name = "getCurrentUser" ->
            [W EXCEPT !.ops[k].st = "resolved",
                      !.ops[k].success = ok,
                      !.ops[k].error = IF ok THEN @ ELSE createAuthError(e)]
      [] W.ops[k].name = "refreshToken" ->
            RefreshTokenSettled(W, k, ok, data, RefreshError(e))
      [] W.ops[k].name = "login" ->
            LoginSettled(W, k, ok, data, createAuthError(e))
      [] W.ops[k].name = "register" ->
            RegisterSettled(W, k, ok, data, createAuthError(e))
      [] W.ops[k].name = "logout" ->
            LogoutSettled(W, k, ok, createAuthError(e))
      [] W.ops[k].name \in PassThrough ->
            PassThroughSettled(W, k, ok, createAuthError(e))
      [] W.ops[k].name = "serviceLogout" ->
            ServiceLogoutSettled(W, k, ok, createAuthError(e))
      [] OTHER -> W

\* the promise of request i is fulfilled with its response
Resolved(W, i) ==
    LET r  == W.reqs[i]
        W1 == [W EXCEPT !.reqs[i].st = "resolved"]
    IN  IF r.owner.kind = "interceptor"
        THEN \* http.ts 47-54: store the new token and retry the original request
             LET p     == r.owner.id
                 token == r.resp.data.token
                 W2    == [W1 EXCEPT
                             !.storage = httpStoreTokens(cfg, @, now,
                                 token.accessToken, token.refreshToken,
                                 token.expiresIn),
                             !.reqs[p].auth = token.accessToken]
             IN  Transmit(W2, p)
        ELSE OpSettled(W1, r.owner.id, TRUE, r.resp.data, NoError)

\* the promise of request i is rejected with e
RECURSIVE Rejected(_, _, _)
Rejected(W, i, e) ==
    LET r  == W.reqs[i]
        W1 == [W EXCEPT !.reqs[i].st = "rejected", !.reqs[i].err = e]
    IN  IF r.owner.kind = "interceptor"
        THEN \* http.ts 55-59: clear the tokens and reject with the refresh error
             Rejected([W1 EXCEPT !.storage = httpClearTokens(cfg, @, now)],
                      r.owner.id, e)
        ELSE OpSettled(W1, r.owner.id, FALSE, NoData, e)

\* a response interceptor that does not look at the _retry flag
OnResponseIgnoresRetry(W, i) ==
    LET r == W.reqs[i] IN
    IF r.resp.status = 200 THEN Resolved(W, i)
    ELSE IF r.resp.status = 401
    THEN LET W1 == [W EXCEPT !.reqs[i].retry = TRUE]
             refreshToken == httpGetStoredTokens(cfg, W1.storage, now).refreshToken
         IN  IF ~Truthy(refreshToken)
             THEN Rejected([W1 EXCEPT !.storage = httpClearTokens(cfg, @, now)],
                           i, PlainError("No refresh token available"))
             ELSE LET W2 == Request(W1, "/auth/refresh", refreshToken,
                                    [kind |-> "interceptor", id |-> i], r.root)
                  IN  [W2 EXCEPT !.reqs[i].st = "refreshing",
                                 !.reqs[i].child = Len(W2.reqs)]
    ELSE Rejected(W, i, AxiosError(r.resp))

\* the response interceptor
OnResponse(W, i) ==
    LET r == W.reqs[i] IN
    IF r.resp.status = 200 THEN Resolved(W, i)
    ELSE IF r.resp.status = 401 /\ ~r.retry
    THEN LET W1 == [W EXCEPT !.reqs[i].retry = TRUE]
             refreshToken == httpGetStoredTokens(cfg, W1.storage, now).refreshToken
         IN  IF ~Truthy(refreshToken)
             THEN Rejected([W1 EXCEPT !.storage = httpClearTokens(cfg, @, now)],
                           i, PlainError("No refresh token available"))
             ELSE LET W2 == Request(W1, "/auth/refresh", refreshToken,
                                    [kind |-> "interceptor", id |-> i], r.root)
                  IN  [W2 EXCEPT !.reqs[i].st = "refreshing",
                                 !.reqs[i].child = Len(W2.reqs)]
    ELSE Rejected(W, i, AxiosError(r.resp))

Commit(W) ==
    /\ ~W.blocked
    /\ reqs' = W.reqs
    /\ storage' = W.storage
    /\ ops' = W.ops
    /\ user' = W.user
    /\ isLoading' = W.isLoading
    /\ error' = W.error
    /\ refreshIntervalRef' = W.refreshIntervalRef
    /\ intervals' = W.intervals
    /\ mounted' = W.mounted

-----------------------------------------------------------------------------
(* The auth service (services/authService), createAuthService.             *)

NewOp(name, origin) ==
    [name |-> name, origin |-> origin, st |-> "pending", success |-> FALSE,
     error |-> NullError, callbacks |-> <<>>, seen |-> <<>>]

getCurrentUser ==
    /\ Len(ops) < MaxCalls
    /\ LET k  == Len(ops) + 1
           W1 == [World EXCEPT !.ops = Append(@, NewOp("getCurrentUser", "manual"))]
       IN  Commit(Request(W1, "/auth/me", NULL, [kind |-> "op", id |-> k], k))
    /\ UNCHANGED <<prompt, cfg, httpClient, csrf, now, last, srv>>

\* createAuthService.refreshToken up to its `await httpClient.post(...)`
apiRefreshToken(W, k) ==
    LET refreshToken == getStoredTokens(cfg, W.storage, now).refreshToken IN
    IF ~Truthy(refreshToken)
    THEN RefreshTokenSettled(W, k, FALSE, NoData,
             AuthError("No refresh token available", "refresh_token_missing", NONE))
    ELSE Request(W, "/auth/refresh", refreshToken, [kind |-> "op", id |-> k], k)

\* createAuthService.login up to its `await httpClient.post(...)`
apiLogin(W, k, credentials) ==
    Request(W, "/auth/login", credentials, [kind |-> "op", id |-> k], k)

\* createAuthService.register up to its `await httpClient.post(...)`
apiRegister(W, k, credentials) ==
    Request(W, "/auth/register", credentials, [kind |-> "op", id |-> k], k)

\* createAuthService.logout up to its `await httpClient.post(...)`
apiLogout(W, k) ==
    Request(W, "/auth/logout", NULL, [kind |-> "op", id |-> k], k)

\* createAuthService.resetPassword, verifyEmail and resendCode up to their
\* `await httpClient.post(...)`
apiResetPassword(W, k, data) ==
    Request(W, "/auth/password-reset", data, [kind |-> "op", id |-> k], k)

apiVerifyEmail(W, k, data) ==
    Request(W, "/auth/verify-email", data, [kind |-> "op", id |-> k], k)

apiResendCode(W, k, data) ==
    Request(W, "/auth/resend-code", data, [kind |-> "op", id |-> k], k)

-----------------------------------------------------------------------------
(* The AuthProvider (context/AuthContext).                                 *)

\* AuthContext.refreshToken up to `await apiRefreshToken()`; origin tells who
\* holds the returned promise: a caller of useAuth().refreshToken ("manual"),
\* the interval callback ("timer") or the init effect ("init")
ctxRefreshToken(W, origin) ==
    LET k  == Len(W.ops) + 1
        W1 == [W EXCEPT !.ops = Append(@, NewOp("refreshToken", origin)),
                        !.isLoading = TRUE, !.error = NullError]
    IN  apiRefreshToken(W1, k)

\* a loadUserFromStorage that refreshes whenever a refresh token is stored
loadUserFromStorageAlwaysRefreshes(W) ==
    IF Truthy(getStoredTokens(cfg, W.storage, now).refreshToken)
    THEN [ctxRefreshToken(W, "init") EXCEPT !.isLoading = FALSE]
    ELSE IF isTokenExpired(cfg, W.storage, now)
    THEN [clearUserAndTokens(W) EXCEPT !.isLoading = FALSE]
    ELSE LET storedUser == getItem(W.storage.localStorage, "auth_user")
             W1 == IF ~Truthy(storedUser) THEN W
                   ELSE IF IsJSON(storedUser)
                        THEN [W EXCEPT !.user = JSONParse(storedUser)]
                        ELSE clearUserAndTokens(W)
         IN  [W1 EXCEPT !.isLoading = FALSE]

\* the init effect's loadUserFromStorage
loadUserFromStorage(W) ==
    IF isTokenExpired(cfg, W.storage, now)
    THEN IF Truthy(getStoredTokens(cfg, W.storage, now).refreshToken)
         THEN [ctxRefreshToken(W, "init") EXCEPT !.isLoading = FALSE]
         ELSE [clearUserAndTokens(W) EXCEPT !.isLoading = FALSE]
    ELSE LET storedUser == getItem(W.storage.localStorage, "auth_user")
             W1 == IF ~Truthy(storedUser) THEN W
                   ELSE IF IsJSON(storedUser)
                        THEN [W EXCEPT !.user = JSONParse(storedUser)]
                        ELSE clearUserAndTokens(W)
         IN  [W1 EXCEPT !.isLoading = FALSE]

\* the context value's isAuthenticated: !!user
isAuthenticated == user # NULL /\ user # UNDEFINED

\* the init effect of the AuthProvider
Mount ==
    /\ mounted = "no"
    /\ Commit(startRefreshTokenInterval(
                  loadUserFromStorage([World EXCEPT !.mounted = "yes"])))
    /\ UNCHANGED <<prompt, cfg, httpClient, csrf, now, last, srv>>

\* another call may be made through useAuth() or by the timer: calls are
\* made one at a time, each after the one before it has settled
CanCall ==
    /\ Len(ops) < MaxSessionCalls
    /\ \A k \in 1..Len(ops) : ops[k].st # "pending"

\* the callback of the refresh interval
TimerFire(id) ==
    /\ id \in intervals
    /\ CanCall
    /\ shouldRefreshToken(cfg, storage, now)
    /\ Commit(ctxRefreshToken(World, "timer"))
    /\ UNCHANGED <<prompt, cfg, httpClient, csrf, now, last, srv>>

\* useAuth().refreshToken()
refreshToken ==
    /\ mounted = "yes"
    /\ CanCall
    /\ Commit(ctxRefreshToken(World, "manual"))
    /\ UNCHANGED <<prompt, cfg, httpClient, csrf, now, last, srv>>

\* a login that does not clear the error state on entry
loginKeepsError(credentials) ==
    /\ mounted = "yes"
    /\ CanCall
    /\ LET k  == Len(ops) + 1
           W1 == [World EXCEPT !.ops = Append(@, NewOp("login", "manual")),
                               !.isLoading = TRUE]
       IN  Commit(apiLogin(W1, k, credentials))
    /\ UNCHANGED <<prompt, cfg, httpClient, csrf, now, last, srv>>

\* useAuth().login(credentials)
login(credentials) ==
    /\ mounted = "yes"
    /\ CanCall
    /\ LET k  == Len(ops) + 1
           W1 == [World EXCEPT !.ops = Append(@, NewOp("login", "manual")),
                               !.isLoading = TRUE, !.error = NullError]
       IN  Commit(apiLogin(W1, k, credentials))
    /\ UNCHANGED <<prompt, cfg, httpClient, csrf, now, last, srv>>

\* useAuth().register(credentials)
register(credentials) ==
    /\ mounted = "yes"
    /\ CanCall
    /\ LET k  == Len(ops) + 1
           W1 == [World EXCEPT !.ops = Append(@, NewOp("register", "manual")),
                               !.isLoading = TRUE, !.error = NullError]
       IN  Commit(apiRegister(W1, k, credentials))
    /\ UNCHANGED <<prompt, cfg, httpClient, csrf, now, last, srv>>

\* useAuth().logout()
logout ==
    /\ mounted = "yes"
    /\ CanCall
    /\ LET k  == Len(ops) + 1
           W1 == [World EXCEPT !.ops = Append(@, NewOp("logout", "manual")),
                               !.isLoading = TRUE, !.error = NullError]
       IN  Commit(apiLogout(W1, k))
    /\ UNCHANGED <<prompt, cfg, httpClient, csrf, now, last, srv>>

\* useAuth().logout() called while an earlier call is still in flight
logoutWhileBusy ==
    /\ mounted = "yes"
    /\ Len(ops) < MaxSessionCalls
    /\ \E j \in 1..Len(ops) : ops[j].st = "pending"
    /\ LET k  == Len(ops) + 1
           W1 == [World EXCEPT !.ops = Append(@, NewOp("logout", "manual")),
                               !.isLoading = TRUE, !.error = NullError]
       IN  Commit(apiLogout(W1, k))
    /\ UNCHANGED <<prompt, cfg, httpClient, csrf, now, last, srv>>

\* the AuthProvider is unmounted: the cleanup of the init effect
Unmount ==
    /\ mounted = "yes"
    /\ Commit(stopRefreshTokenInterval([World EXCEPT !.mounted = "gone"]))
    /\ UNCHANGED <<prompt, cfg, httpClient, csrf, now, last, srv>>

\* useAuth().resetPassword(data)
resetPassword(data) ==
    /\ mounted = "yes"
    /\ CanCall
    /\ LET k  == Len(ops) + 1
           W1 == [World EXCEPT !.ops = Append(@, NewOp("resetPassword", "manual")),
                               !.error = NullError]
       IN  Commit(apiResetPassword(W1, k, data))
    /\ UNCHANGED <<prompt, cfg, httpClient, csrf, now, last, srv>>

\* useAuth().verifyEmail(data)
verifyEmail(data) ==
    /\ mounted = "yes"
    /\ CanCall
    /\ LET k  == Len(ops) + 1
           W1 == [World EXCEPT !.ops = Append(@, NewOp("verifyEmail", "manual")),
                               !.error = NullError]
       IN  Commit(apiVerifyEmail(W1, k, data))
    /\ UNCHANGED <<prompt, cfg, httpClient, csrf, now, last, srv>>

\* useAuth().resendCode(data)
resendCode(data) ==
    /\ mounted = "yes"
    /\ CanCall
    /\ LET k  == Len(ops) + 1
           W1 == [World EXCEPT !.ops = Append(@, NewOp("resendCode", "manual")),
                               !.error = NullError]
       IN  Commit(apiResendCode(W1, k, data))
    /\ UNCHANGED <<prompt, cfg, httpClient, csrf, now, last, srv>>

\* setCsrfToken(token)
setCsrfToken(token) ==
    /\ csrf.token # token
    /\ csrf' = [csrf EXCEPT !.token = token]
    /\ UNCHANGED <<prompt, cfg, httpClient, storage, now, last, reqs, srv, ops, session>>

\* the direct logout() of the service up to its `await axios.post(...)`,
\* called without options; with no token stored it runs to its end
directLogout ==
    /\ Len(reqs) < MaxReq
    /\ LET token  == getStoredTokens(cfg, storage, now).token
           got    == getCsrfToken(csrf, storage, now)
           config == createAuthenticatedRequest(<<>>, token, got.value)
           r == [url |-> "/auth/logout", body |-> NULL,
                 auth |-> Header(config, "Authorization"), retry |-> FALSE,
                 target |-> getFullUrl(cfg, "logout"),
                 csrf |-> Header(config, "X-CSRF-Token"),
                 st |-> "sent", sends |-> 1, resp |-> NoResponse,
                 err |-> NoError, owner |-> [kind |-> "direct", id |-> 0],
                 root |-> 0, child |-> 0]
       IN  IF Truthy(token)
           THEN /\ reqs' = Append(reqs, r)
                /\ csrf' = got.csrf
                /\ UNCHANGED storage
           ELSE /\ storage' = clearTokens(cfg, storage, now)
                /\ UNCHANGED <<reqs, csrf>>
    /\ UNCHANGED <<prompt, cfg, httpClient, now, last, srv, ops, session>>

\* the direct logout() from its await on: the finally block
DeliverDirect(i) ==
    /\ reqs[i].st = "answered"
    /\ reqs[i].owner.kind = "direct"
    /\ reqs' = [reqs EXCEPT ![i].st = IF reqs[i].resp.status = 200
                                      THEN "resolved" ELSE "rejected"]
    /\ storage' = clearTokens(cfg, storage, now)
    /\ UNCHANGED <<prompt, cfg, httpClient, csrf, now, last, srv, ops, session>>

-----------------------------------------------------------------------------
(* The network.                                                            *)

ServerAnswer(i, fault) ==
    /\ reqs[i].st = "sent"
    /\ fault # "none" => srv.faults < MaxFaults
    /\ LET failed == [srv EXCEPT !.faults = @ + 1]
           out == CASE fault = "error" ->
                           [srv |-> failed, resp |-> ErrorResponse(srv, 500)]
                    [] fault = "network" ->
                           [srv |-> failed, resp |-> NoResponse]
                    [] fault = "unauthorized" ->
                           [srv |-> failed, resp |-> ErrorResponse(srv, 401)]
                    [] fault = "accessOnly" ->
                           \* a login, register or refresh answered with an
                           \* access token and no refresh token
                           LET served == Serve(srv, reqs[i]) IN
                           [srv  |-> [served.srv EXCEPT !.faults = @ + 1],
                            resp |-> IF /\ reqs[i].url \in {"/auth/login",
                                            "/auth/register", "/auth/refresh"}
                                        /\ served.resp.status = 200
                                     THEN [served.resp EXCEPT
                                              !.data.token.refreshToken = UNDEFINED]
                                     ELSE served.resp]
                    [] fault = "tokensOnly" ->
                           \* POST /auth/refresh answered with the new tokens
                           \* and no user
                           LET served == Serve(srv, reqs[i]) IN
                           [srv  |-> [served.srv EXCEPT !.faults = @ + 1],
                            resp |-> IF /\ reqs[i].url = "/auth/refresh"
                                        /\ served.resp.status = 200
                                     THEN [served.resp EXCEPT
                                              !.data.user = UNDEFINED]
                                     ELSE served.resp]
                    [] OTHER -> Serve(srv, reqs[i])
       IN  /\ srv' = out.srv
           /\ reqs' = [reqs EXCEPT ![i].st = "answered", ![i].resp = out.resp]
    /\ UNCHANGED <<prompt, cfg, httpClient, csrf, storage, now, last, ops, session>>

Deliver(i) ==
    /\ reqs[i].st = "answered"
    /\ reqs[i].owner.kind # "direct"
    /\ Commit(OnResponse(World, i))
    /\ UNCHANGED <<prompt, cfg, httpClient, csrf, now, last, srv>>

\* the server stops accepting the access tokens it has issued
ServerExpire ==
    /\ srv.access # {}
    /\ srv' = [srv EXCEPT !.access = {}]
    /\ UNCHANGED <<prompt, cfg, httpClient, csrf, storage, now, last, reqs, ops, session>>

-----------------------------------------------------------------------------
(* Inputs.                                                                 *)

Backends == {"localStorage", "sessionStorage", "cookie", "memory"}

AccessTokens  == {<<"A", "1">>, <<"A", "=">>}
RefreshTokens == {<<"R", "1">>, <<"R", ";">>}
Lifetimes     == 0..MaxLifetime

\* the configurations configureAuth() can have installed before first use
Configs ==
    [baseUrl                 : {defaultConfig.baseUrl},
     endpoints               : {defaultConfig.endpoints},
     tokenStorage            : Backends,
     tokenExpiration         : {MaxLifetime},
     autoRefresh             : BOOLEAN,
     refreshBeforeExpiration : {1},
     cookieOptions           : {[path |-> "/"]}]

EmptyStorage ==
    [localStorage   |-> EmptyWebStorage,
     sessionStorage |-> EmptyWebStorage,
     cookie         |-> {},
     memory         |-> [token |-> NULL, refreshToken |-> NULL,
                         tokenExpiration |-> NONE]]

LastTime == StartTime + MaxTicks * TickMs

\* the AuthProvider as constructed: useState(null), useState(true),
\* useState(null), useRef(null)
InitSession ==
    /\ user = NULL
    /\ isLoading = TRUE
    /\ error = NullError
    /\ refreshIntervalRef = 0
    /\ intervals = {}
    /\ mounted = "no"

-----------------------------------------------------------------------------
(* The token store and the expiry policy, driven call by call.             *)

InitStore ==
    /\ cfg \in Configs
    /\ httpClient = createAuthHttpClient(cfg)
    /\ csrf = NoCsrf
    /\ prompt = NoPrompt
    /\ storage = EmptyStorage
    /\ now = StartTime
    /\ last = [op |-> "none"]
    /\ reqs = <<>>
    /\ srv = [gen |-> 0, access |-> {}, refresh |-> {}, faults |-> 0,
              verbose |-> TRUE]
    /\ ops = <<>>
    /\ InitSession

CallStoreTokens(a, r, e) ==
    /\ storage' = storeTokens(cfg, storage, now, a, r, e)
    /\ last' = [op |-> "storeTokens", token |-> a, refreshToken |-> r,
                expiresIn |-> e, at |-> now,
                hadRefresh |-> Truthy(getStoredTokens(cfg, storage, now).refreshToken)]
    /\ UNCHANGED <<prompt, cfg, httpClient, csrf, now, reqs, srv, ops, session>>

CallClearTokens ==
    /\ storage' = clearTokens(cfg, storage, now)
    /\ last' = [op |-> "clearTokens", at |-> now,
                hadToken |-> Truthy(getStoredTokens(cfg, storage, now).token)]
    /\ UNCHANGED <<prompt, cfg, httpClient, csrf, now, reqs, srv, ops, session>>

CallIsTokenExpired ==
    /\ last' = [op |-> "isTokenExpired", at |-> now,
                before |-> getStoredTokens(cfg, storage, now),
                result |-> isTokenExpired(cfg, storage, now)]
    /\ UNCHANGED <<prompt, cfg, httpClient, csrf, storage, now, reqs, srv, ops, session>>

CallShouldRefreshToken ==
    /\ last' = [op |-> "shouldRefreshToken", at |-> now,
                before |-> getStoredTokens(cfg, storage, now),
                result |-> shouldRefreshToken(cfg, storage, now)]
    /\ UNCHANGED <<prompt, cfg, httpClient, csrf, storage, now, reqs, srv, ops, session>>

Tick ==
    /\ now < LastTime
    /\ now' = now + TickMs
    /\ UNCHANGED <<prompt, cfg, httpClient, csrf, storage, last, reqs, srv, ops, session>>

NextStore ==
    \/ \E a \in AccessTokens, r \in RefreshTokens \cup {UNDEFINED},
          e \in Lifetimes \cup {NONE} : CallStoreTokens(a, r, e)
    \/ CallClearTokens
    \/ CallIsTokenExpired
    \/ CallShouldRefreshToken
    \/ Tick

SpecStore == InitStore /\ [][NextStore]_vars

-----------------------------------------------------------------------------
(* The same calls made on each of the four backends, side by side.         *)

\* the configuration with backend b selected
On(b) == [cfg EXCEPT !.tokenStorage = b]

RECURSIVE OnEach(_, _, _)
\* Call(b, st) applied for every backend of bs, each to its own store
OnEach(Call(_, _), bs, st) ==
    IF bs = {} THEN st
    ELSE LET b == CHOOSE x \in bs : TRUE
         IN  OnEach(Call, bs \ {b}, Call(b, st))

StoreTokensOnEach(a, r, e) ==
    /\ LET Call(b, st) == storeTokens(On(b), st, now, a, r, e)
       IN  storage' = OnEach(Call, Backends, storage)
    /\ last' = [op |-> "storeTokens", token |-> a, refreshToken |-> r,
                expiresIn |-> e, at |-> now,
                omitted |-> last.omitted \/ ~Truthy(r)]
    /\ UNCHANGED <<prompt, cfg, httpClient, csrf, now, reqs, srv, ops, session>>

ClearTokensOnEach ==
    /\ LET Call(b, st) == clearTokens(On(b), st, now)
       IN  storage' = OnEach(Call, Backends, storage)
    /\ last' = [op |-> "clearTokens", at |-> now, omitted |-> last.omitted]
    /\ UNCHANGED <<prompt, cfg, httpClient, csrf, now, reqs, srv, ops, session>>

TickBackends ==
    /\ now < LastTime
    /\ now' = now + TickMs
    /\ UNCHANGED <<prompt, cfg, httpClient, csrf, storage, last, reqs, srv, ops,
                   session>>

InitBackends ==
    /\ cfg \in Configs
    /\ httpClient = createAuthHttpClient(cfg)
    /\ csrf = NoCsrf
    /\ prompt = NoPrompt
    /\ storage = EmptyStorage
    /\ now = StartTime
    /\ last = [op |-> "none", omitted |-> FALSE]
    /\ reqs = <<>>
    /\ srv = [gen |-> 0, access |-> {}, refresh |-> {}, faults |-> 0,
              verbose |-> TRUE]
    /\ ops = <<>>
    /\ InitSession

NextBackends ==
    \/ \E a \in AccessTokens, r \in RefreshTokens \cup {UNDEFINED},
          e \in Lifetimes \cup {NONE} : StoreTokensOnEach(a, r, e)
    \/ ClearTokensOnEach
    \/ TickBackends

SpecBackends == InitBackends /\ [][NextBackends]_vars

-----------------------------------------------------------------------------
(* The HTTP client under concurrent service calls: the store holds the     *)
(* tokens of an earlier login, which the server may since have expired.    *)

InitHttp ==
    /\ cfg \in {c \in Configs : c.autoRefresh}
    /\ httpClient = createAuthHttpClient(cfg)
    /\ csrf = NoCsrf
    /\ prompt = NoPrompt
    /\ now = StartTime
    /\ \E r \in {RefreshTok(1), UNDEFINED} :
         storage = storeTokens(cfg, EmptyStorage, now, AccessTok(1), r, ServerLifetime)
    /\ \E a \in SUBSET {AccessTok(1)}, r \in SUBSET {RefreshTok(1)},
          v \in BOOLEAN :
         srv = [gen |-> 1, access |-> a, refresh |-> r, faults |-> 0,
                verbose |-> v]
    /\ last = [op |-> "none"]
    /\ reqs = <<>>
    /\ ops = <<>>
    /\ InitSession

NextHttp ==
    \/ getCurrentUser
    \/ \E i \in 1..Len(reqs), fault \in {"none", "error", "network"} :
          ServerAnswer(i, fault)
    \/ \E i \in 1..Len(reqs) : Deliver(i)
    \/ ServerExpire

SpecHttp == InitHttp /\ [][NextHttp]_vars

-----------------------------------------------------------------------------
(* The AuthProvider in a browser: the page loads with whatever an earlier  *)
(* visit left in the browser's stores, against a server that may since     *)
(* have expired or revoked the tokens it issued.                           *)

\* what an AuthProvider that stored its tokens at time t, for e seconds,
\* leaves behind for the next one: for one mounted after a page load, which
\* the in-memory store does not survive, or for one mounted again in the
\* same page
PersistedStorage(c, t, r, e, samePage) ==
    LET st == storeTokens(c, EmptyStorage, t, AccessTok(1), r, e) IN
    [st EXCEPT !.localStorage = setItem(@, "auth_user", JSONStringify(UserOf(1))),
               !.memory = IF samePage THEN @ ELSE EmptyStorage.memory]

Init ==
    /\ cfg \in Configs
    /\ httpClient = createAuthHttpClient(cfg)
    /\ csrf = NoCsrf
    /\ prompt = NoPrompt
    /\ now = StartTime
    /\ \/ /\ storage = EmptyStorage
          /\ srv = [gen |-> 0, access |-> {}, refresh |-> {}, faults |-> 0,
                    verbose |-> TRUE]
       \/ \E r \in {RefreshTok(1), UNDEFINED}, age \in {0, 1}, samePage \in BOOLEAN :
            /\ storage = PersistedStorage(cfg, now - age * 1000, r, 1, samePage)
            /\ \E a \in SUBSET {AccessTok(1)}, v \in SUBSET ({r} \ {UNDEFINED}) :
                 srv = [gen |-> 1, access |-> a, refresh |-> v, faults |-> 0,
                        verbose |-> TRUE]
    /\ last = [op |-> "none"]
    /\ reqs = <<>>
    /\ ops = <<>>
    /\ InitSession

\* time passes in the browser
SessionTick ==
    /\ now < StartTime + SessionTicks * TickMs
    /\ now' = now + TickMs
    /\ UNCHANGED <<prompt, cfg, httpClient, csrf, storage, last, reqs, srv, ops, session>>

Next ==
    \/ Mount
    \/ \E id \in intervals : TimerFire(id)
    \/ refreshToken
    \/ \E credentials \in {GoodCredentials, BadCredentials} : login(credentials)
    \/ \E credentials \in {GoodCredentials, BadCredentials} : register(credentials)
    \/ logout
    \/ \E i \in 1..Len(reqs), fault \in {"none", "error"} : ServerAnswer(i, fault)
    \/ \E i \in 1..Len(reqs) : Deliver(i)
    \/ SessionTick

Spec == Init /\ [][Next]_vars

-----------------------------------------------------------------------------
(* The operations of useAuth(), called one after another on a page that    *)
(* starts with no session or with the session of an earlier visit.         *)

InitOps ==
    /\ cfg \in {c \in Configs : c.autoRefresh}
    /\ httpClient = createAuthHttpClient(cfg)
    /\ csrf = NoCsrf
    /\ prompt = NoPrompt
    /\ now = StartTime
    /\ \/ /\ storage = EmptyStorage
          /\ srv = [gen |-> 0, access |-> {}, refresh |-> {}, faults |-> 0,
                    verbose |-> TRUE]
       \/ /\ storage = PersistedStorage(cfg, now, RefreshTok(1), 1, TRUE)
          /\ \E a \in SUBSET {AccessTok(1)}, v \in SUBSET {RefreshTok(1)} :
                srv = [gen |-> 1, access |-> a, refresh |-> v, faults |-> 0,
                       verbose |-> TRUE]
    /\ last = [op |-> "none"]
    /\ reqs = <<>>
    /\ ops = <<>>
    /\ InitSession

NextOps ==
    \/ Mount
    \/ refreshToken
    \/ \E credentials \in {GoodCredentials, BadCredentials} : login(credentials)
    \/ \E credentials \in {GoodCredentials, BadCredentials} : register(credentials)
    \/ logout
    \/ \E data \in {GoodData, BadData} : resetPassword(data)
    \/ \E data \in {GoodData, BadData} : verifyEmail(data)
    \/ \E data \in {GoodData, BadData} : resendCode(data)
    \/ \E i \in 1..Len(reqs), fault \in {"none", "unauthorized"} :
          ServerAnswer(i, fault)
    \/ \E i \in 1..Len(reqs) : Deliver(i)

SpecOps == InitOps /\ [][NextOps]_vars

-----------------------------------------------------------------------------
(* Signing in and out and unmounting, with calls that overlap.             *)

NextTeardown ==
    \/ Mount
    \/ \E credentials \in {GoodCredentials, BadCredentials} : login(credentials)
    \/ \E credentials \in {GoodCredentials, BadCredentials} : register(credentials)
    \/ logout
    \/ logoutWhileBusy
    \/ Unmount
    \/ \E i \in 1..Len(reqs) : ServerAnswer(i, "none")
    \/ \E i \in 1..Len(reqs) : Deliver(i)

\* useAuth().login(credentials) while an earlier call is pending
loginWhileBusy(credentials) ==
    /\ mounted = "yes"
    /\ Len(ops) < MaxSessionCalls
    /\ \E j \in 1..Len(ops) : ops[j].st = "pending"
    /\ LET k  == Len(ops) + 1
           W1 == [World EXCEPT !.ops = Append(@, NewOp("login", "manual")),
                               !.isLoading = TRUE, !.error = NullError]
       IN  Commit(apiLogin(W1, k, credentials))
    /\ UNCHANGED <<prompt, cfg, httpClient, csrf, now, last, srv>>

\* useAuth().register(credentials) while an earlier call is pending
registerWhileBusy(credentials) ==
    /\ mounted = "yes"
    /\ Len(ops) < MaxSessionCalls
    /\ \E j \in 1..Len(ops) : ops[j].st = "pending"
    /\ LET k  == Len(ops) + 1
           W1 == [World EXCEPT !.ops = Append(@, NewOp("register", "manual")),
                               !.isLoading = TRUE, !.error = NullError]
       IN  Commit(apiRegister(W1, k, credentials))
    /\ UNCHANGED <<prompt, cfg, httpClient, csrf, now, last, srv>>

SpecTeardown == InitOps /\ [][NextTeardown]_vars

\* logins and registrations that overlap, answered with or without a
\* refresh token
InitOverlap ==
    /\ cfg \in {c \in Configs : c.autoRefresh}
    /\ httpClient = createAuthHttpClient(cfg)
    /\ csrf = NoCsrf
    /\ prompt = NoPrompt
    /\ now = StartTime
    /\ storage = EmptyStorage
    /\ srv = [gen |-> 0, access |-> {}, refresh |-> {}, faults |-> 0,
              verbose |-> TRUE]
    /\ last = [op |-> "none"]
    /\ reqs = <<>>
    /\ ops = <<>>
    /\ InitSession

NextOverlap ==
    \/ Mount
    \/ login(GoodCredentials)
    \/ register(GoodCredentials)
    \/ loginWhileBusy(GoodCredentials)
    \/ registerWhileBusy(GoodCredentials)
    \/ \E i \in 1..Len(reqs), fault \in {"none", "accessOnly"} :
          ServerAnswer(i, fault)
    \/ \E i \in 1..Len(reqs) : Deliver(i)

SpecOverlap == InitOverlap /\ [][NextOverlap]_vars

\* the same session with autoRefresh on or off
InitTimers ==
    /\ cfg \in Configs
    /\ httpClient = createAuthHttpClient(cfg)
    /\ csrf = NoCsrf
    /\ prompt = NoPrompt
    /\ now = StartTime
    /\ \/ /\ storage = EmptyStorage
          /\ srv = [gen |-> 0, access |-> {}, refresh |-> {}, faults |-> 0,
                    verbose |-> TRUE]
       \/ /\ storage = PersistedStorage(cfg, now, RefreshTok(1), 1, TRUE)
          /\ srv = [gen |-> 1, access |-> {AccessTok(1)},
                    refresh |-> {RefreshTok(1)}, faults |-> 0, verbose |-> TRUE]
    /\ last = [op |-> "none"]
    /\ reqs = <<>>
    /\ ops = <<>>
    /\ InitSession

SpecTimers == InitTimers /\ [][NextTeardown]_vars

-----------------------------------------------------------------------------
(* Requests made while an anti-forgery token may be known: through the     *)
(* HTTP client (getCurrentUser) and by the direct logout().                *)

CsrfTokens == {<<"c", "1">>, <<"c", "2">>}

InitCsrf ==
    /\ cfg \in {c \in Configs : c.autoRefresh}
    /\ httpClient = createAuthHttpClient(cfg)
    /\ csrf \in [token : {NULL}, meta : {NULL} \cup CsrfTokens]
    /\ prompt = NoPrompt
    /\ now = StartTime
    /\ \/ storage = EmptyStorage
       \/ \E r \in {RefreshTok(1), UNDEFINED} :
            storage = storeTokens(cfg, EmptyStorage, now, AccessTok(1), r,
                                  ServerLifetime)
    /\ srv = [gen |-> 1, access |-> {AccessTok(1)}, refresh |-> {RefreshTok(1)},
              faults |-> 0, verbose |-> TRUE]
    /\ last = [op |-> "none"]
    /\ reqs = <<>>
    /\ ops = <<>>
    /\ InitSession

NextCsrf ==
    \/ \E token \in CsrfTokens : setCsrfToken(token)
    \/ directLogout
    \/ getCurrentUser
    \/ \E i \in 1..Len(reqs) : ServerAnswer(i, "none")
    \/ \E i \in 1..Len(reqs) : Deliver(i)
    \/ \E i \in 1..Len(reqs) : DeliverDirect(i)

SpecCsrf == InitCsrf /\ [][NextCsrf]_vars

-----------------------------------------------------------------------------
(* The logout functions the package exports for direct use.                *)

\* logout() of the default auth service, as exported by index.tsx
serviceLogout ==
    /\ Len(ops) < MaxCalls
    /\ LET k  == Len(ops) + 1
           W1 == [World EXCEPT !.ops = Append(@, NewOp("serviceLogout", "manual"))]
       IN  Commit(apiLogout(W1, k))
    /\ UNCHANGED <<prompt, cfg, httpClient, csrf, now, last, srv>>

InitLogout ==
    /\ cfg \in {c \in Configs : c.autoRefresh}
    /\ httpClient = createAuthHttpClient(cfg)
    /\ csrf = NoCsrf
    /\ prompt = NoPrompt
    /\ now = StartTime
    /\ \E r \in {RefreshTok(1), UNDEFINED} :
         storage = storeTokens(cfg, EmptyStorage, now, AccessTok(1), r, ServerLifetime)
    /\ \E a \in SUBSET {AccessTok(1)} :
         srv = [gen |-> 1, access |-> a, refresh |-> {RefreshTok(1)},
                faults |-> 0, verbose |-> TRUE]
    /\ last = [op |-> "none"]
    /\ reqs = <<>>
    /\ ops = <<>>
    /\ InitSession

NextLogout ==
    \/ serviceLogout
    \/ directLogout
    \/ \E i \in 1..Len(reqs), fault \in {"none", "error"} :
          ServerAnswer(i, fault)
    \/ \E i \in 1..Len(reqs) : Deliver(i)
    \/ \E i \in 1..Len(reqs) : DeliverDirect(i)

SpecLogout == InitLogout /\ [][NextLogout]_vars

-----------------------------------------------------------------------------
(* A signed-in session whose tokens are refreshed, by the application and  *)
(* by the refresh interval; the server answers a refresh with or without   *)
(* the user.                                                               *)

InitRefresh ==
    /\ cfg \in {c \in Configs : c.autoRefresh}
    /\ httpClient = createAuthHttpClient(cfg)
    /\ csrf = NoCsrf
    /\ prompt = NoPrompt
    /\ now = StartTime
    /\ \E age \in {0, 1} :
          storage = PersistedStorage(cfg, now - age * 1000, RefreshTok(1), 1, TRUE)
    /\ srv = [gen |-> 1, access |-> {AccessTok(1)}, refresh |-> {RefreshTok(1)},
              faults |-> 0, verbose |-> TRUE]
    /\ last = [op |-> "none"]
    /\ reqs = <<>>
    /\ ops = <<>>
    /\ InitSession

NextRefresh ==
    \/ Mount
    \/ \E id \in intervals : TimerFire(id)
    \/ refreshToken
    \/ \E i \in 1..Len(reqs), fault \in {"none", "tokensOnly"} :
          ServerAnswer(i, fault)
    \/ \E i \in 1..Len(reqs) : Deliver(i)
    \/ SessionTick

SpecRefresh == InitRefresh /\ [][NextRefresh]_vars

-----------------------------------------------------------------------------
(* A signed-in session in which logout is called, also while a refresh is  *)
(* in flight.                                                              *)

NextRace ==
    \/ Mount
    \/ \E id \in intervals : TimerFire(id)
    \/ refreshToken
    \/ logout
    \/ logoutWhileBusy
    \/ \E i \in 1..Len(reqs) : ServerAnswer(i, "none")
    \/ \E i \in 1..Len(reqs) : Deliver(i)
    \/ SessionTick

SpecRace == InitRefresh /\ [][NextRace]_vars

-----------------------------------------------------------------------------
(* A signed-in session, with or without a refresh token, whose requests    *)
(* the server may answer with 401 or 500.                                  *)

InitGuard ==
    /\ cfg \in {c \in Configs : c.autoRefresh}
    /\ httpClient = createAuthHttpClient(cfg)
    /\ csrf = NoCsrf
    /\ prompt = NoPrompt
    /\ now = StartTime
    /\ \E r \in {RefreshTok(1), UNDEFINED} :
          /\ storage = PersistedStorage(cfg, now, r, 1, TRUE)
          /\ srv = [gen |-> 1, access |-> {AccessTok(1)},
                    refresh |-> {r} \ {UNDEFINED}, faults |-> 0,
                    verbose |-> TRUE]
    /\ last = [op |-> "none"]
    /\ reqs = <<>>
    /\ ops = <<>>
    /\ InitSession

NextGuard ==
    \/ Mount
    \/ logout
    \/ resetPassword(GoodData)
    \/ verifyEmail(GoodData)
    \/ resendCode(GoodData)
    \/ \E i \in 1..Len(reqs), fault \in {"none", "unauthorized", "error"} :
          ServerAnswer(i, fault)
    \/ \E i \in 1..Len(reqs) : Deliver(i)

SpecGuard == InitGuard /\ [][NextGuard]_vars

-----------------------------------------------------------------------------
(* VerificationPrompt, rendered inside the AuthProvider.                   *)

\* /^\d+$/.test(code)
TestDigits(code) == Len(code) >= 1 /\ \A i \in 1..Len(code) : IsDigit(code[i])

\* what the user types into the code field
Codes ==
    {<<>>, <<"1", "2", "3">>, <<"1", "2", "3", "4", "5", "a">>,
     <<"1", "2", "3", "4", "5", "6", "7">>, <<"a", "b", "c", "d", "e", "f">>,
     GoodCode, BadCode}

isFormDisabled == isLoading \/ prompt.isSubmitting

\* onChange of the code input
setCode(value) ==
    /\ mounted = "yes"
    /\ ~prompt.verified
    /\ ~isFormDisabled
    /\ prompt' = [prompt EXCEPT !.code = value]
    /\ UNCHANGED <<cfg, httpClient, csrf, storage, now, last, reqs, srv, ops,
                   session>>

\* handleSubmit without the length test
handleSubmitAnyLength ==
    /\ mounted = "yes"
    /\ ~prompt.verified
    /\ ~isFormDisabled
    /\ LET code  == prompt.code
           reset == [prompt EXCEPT !.error = NULL, !.validationError = NULL,
                                   !.isSubmitting = TRUE]
       IN  IF ~TestDigits(code)
           THEN /\ prompt' = [reset EXCEPT
                                 !.validationError = "Code must be 6 digits",
                                 !.isSubmitting = FALSE]
                /\ last' = [op |-> "handleSubmit", code |-> code,
                            rejections |-> 1]
                /\ UNCHANGED <<storage, reqs, ops, session>>
           ELSE /\ CanCall
                /\ LET k  == Len(ops) + 1
                       W1 == [World EXCEPT
                                !.ops = Append(@, NewOp("verifyEmail", "manual")),
                                !.error = NullError]
                   IN  Commit(apiVerifyEmail(W1, k, code))
                /\ prompt' = [reset EXCEPT !.call = Len(ops) + 1]
                /\ last' = [op |-> "handleSubmit", code |-> code,
                            rejections |-> last.rejections]
    /\ UNCHANGED <<cfg, httpClient, csrf, now, srv>>

\* handleSubmit, up to its await of verifyEmail({ code, email })
handleSubmit ==
    /\ mounted = "yes"
    /\ ~prompt.verified
    /\ ~isFormDisabled
    /\ LET code  == prompt.code
           reset == [prompt EXCEPT !.error = NULL, !.validationError = NULL,
                                   !.isSubmitting = TRUE]
       IN  IF Len(code) # 6 \/ ~TestDigits(code)
           THEN /\ prompt' = [reset EXCEPT
                                 !.validationError = "Code must be 6 digits",
                                 !.isSubmitting = FALSE]
                /\ last' = [op |-> "handleSubmit", code |-> code,
                            rejections |-> 1]
                /\ UNCHANGED <<storage, reqs, ops, session>>
           ELSE /\ CanCall
                /\ LET k  == Len(ops) + 1
                       W1 == [World EXCEPT
                                !.ops = Append(@, NewOp("verifyEmail", "manual")),
                                !.error = NullError]
                   IN  Commit(apiVerifyEmail(W1, k, code))
                /\ prompt' = [reset EXCEPT !.call = Len(ops) + 1]
                /\ last' = [op |-> "handleSubmit", code |-> code,
                            rejections |-> last.rejections]
    /\ UNCHANGED <<cfg, httpClient, csrf, now, srv>>

\* handleSubmit after its await: setVerified, or the catch, and the finally
handleSubmitSettled ==
    /\ prompt.call # 0
    /\ ops[prompt.call].st \in {"resolved", "rejected"}
    /\ prompt' = IF ops[prompt.call].st = "resolved"
                 THEN [prompt EXCEPT !.verified = TRUE, !.isSubmitting = FALSE,
                                     !.call = 0]
                 ELSE [prompt EXCEPT !.error = ops[prompt.call].error.message,
                                     !.isSubmitting = FALSE, !.call = 0]
    /\ UNCHANGED <<cfg, httpClient, csrf, storage, now, last, reqs, srv, ops,
                   session>>

InitPrompt ==
    /\ cfg \in {c \in Configs : c.autoRefresh}
    /\ httpClient = createAuthHttpClient(cfg)
    /\ csrf = NoCsrf
    /\ prompt = NoPrompt
    /\ now = StartTime
    /\ storage = EmptyStorage
    /\ srv = [gen |-> 0, access |-> {}, refresh |-> {}, faults |-> 0,
              verbose |-> TRUE]
    /\ last = [op |-> "none", rejections |-> 0]
    /\ reqs = <<>>
    /\ ops = <<>>
    /\ InitSession

NextPrompt ==
    \/ Mount
    \/ \E value \in Codes : setCode(value)
    \/ handleSubmit
    \/ handleSubmitSettled
    \/ \E i \in 1..Len(reqs) : ServerAnswer(i, "none")
    \/ \E i \in 1..Len(reqs) : Deliver(i)

SpecPrompt == InitPrompt /\ [][NextPrompt]_vars

-----------------------------------------------------------------------------
(* The application configures the package and then uses the AuthProvider.  *)

BaseUrl == <<"https:", "/", "/", "api.test.com">>

CustomEndpoints ==
    [key \in DOMAIN defaultConfig.endpoints |-> <<"/", "v2", "/", key>>]

\* an object literal with one property, or with none
Property(key, values) == {<<>>} \cup {[k \in {key} |-> v] : v \in values}

\* the arguments configureAuth is called with
ConfigInputs ==
    {Spread(Spread(a, b), c) :
        a \in Property("baseUrl", {BaseUrl, BaseUrl \o <<"/">>}),
        b \in Property("tokenStorage", {"memory", "invalid", ""}),
        c \in Property("endpoints", {CustomEndpoints})}

configureAuth(config) ==
    /\ last.n < MaxConfigure
    /\ LET out == ConfigureAuthOutcome(cfg, config) IN
       /\ cfg' = out.authConfig
       /\ last' = [op |-> "configureAuth", n |-> last.n + 1,
                   config |-> config, threw |-> out.threw]
    /\ UNCHANGED <<prompt, httpClient, csrf, storage, now, reqs, srv, ops, session>>

InitConfig ==
    /\ cfg = defaultConfig
    /\ httpClient = createAuthHttpClient(cfg)
    /\ csrf = NoCsrf
    /\ prompt = NoPrompt
    /\ now = StartTime
    /\ storage = EmptyStorage
    /\ srv = [gen |-> 0, access |-> {}, refresh |-> {}, faults |-> 0,
              verbose |-> TRUE]
    /\ last = [op |-> "none", n |-> 0]
    /\ reqs = <<>>
    /\ ops = <<>>
    /\ InitSession

NextConfig ==
    \/ \E config \in ConfigInputs : configureAuth(config)
    \/ Mount
    \/ refreshToken
    \/ login(GoodCredentials)
    \/ register(GoodCredentials)
    \/ logout
    \/ resetPassword(GoodData)
    \/ verifyEmail(GoodData)
    \/ resendCode(GoodData)
    \/ \E i \in 1..Len(reqs) : ServerAnswer(i, "none")
    \/ \E i \in 1..Len(reqs) : Deliver(i)

SpecConfig == InitConfig /\ [][NextConfig]_vars

-----------------------------------------------------------------------------
(* Properties of the token store and the expiry policy (SpecStore).        *)

\* C7: on every backend, storeTokens(a, r, t) with a positive lifetime t,
\* followed immediately by getStoredTokens(), returns access token a, refresh
\* token r (absent when r was absent) and expiresAt = now + t * 1000, whatever
\* the store held before.
C7_RoundTrip ==
    (last.op = "storeTokens" /\ last.at = now /\ last.expiresIn \in 1..MaxLifetime)
    => LET rd == getStoredTokens(cfg, storage, now) IN
       /\ rd.token = last.token
       /\ rd.refreshToken =
            (IF last.refreshToken = UNDEFINED THEN NULL ELSE last.refreshToken)
       /\ rd.expiresAt = last.at + last.expiresIn * 1000

\* C8: after clearTokens() getStoredTokens() returns access token, refresh
\* token and expiresAt all absent, on every backend and whatever the store
\* held, and a further clearTokens() call changes nothing.
C8_ClearIdempotent ==
    /\ [](last.op = "clearTokens" => getStoredTokens(cfg, storage, now) = NoTokens)
    /\ [][(last.op = "clearTokens" /\ last'.op = "clearTokens")
            => storage' = storage]_vars

C8_Witness ==
    /\ last.op = "clearTokens"
    /\ last.hadToken
    /\ getStoredTokens(cfg, storage, now) = NoTokens

\* C9: isTokenExpired() is true exactly when the stored expiresAt is absent or
\* now >= expiresAt.
C9_IsTokenExpired ==
    last.op = "isTokenExpired"
    => (last.result <=> (\/ last.before.expiresAt = NONE
                         \/ last.at >= last.before.expiresAt))

C9_Witness ==
    /\ last.op = "isTokenExpired"
    /\ last.before.expiresAt = last.at
    /\ last.result

\* C10: shouldRefreshToken() is true exactly when autoRefresh is enabled,
\* expiresAt is present and expiresAt - now < refreshBeforeExpiration * 1000.
C10_ShouldRefreshToken ==
    last.op = "shouldRefreshToken"
    => (last.result <=> (/\ cfg.autoRefresh
                         /\ last.before.expiresAt # NONE
                         /\ last.before.expiresAt - last.at
                                < cfg.refreshBeforeExpiration * 1000))

C10_Witness ==
    /\ last.op = "shouldRefreshToken"
    /\ last.before.expiresAt # NONE
    /\ last.before.expiresAt - last.at = cfg.refreshBeforeExpiration * 1000
    /\ cfg.autoRefresh
    /\ ~last.result

-----------------------------------------------------------------------------
(* Properties of the authenticated HTTP client (SpecHttp).                 *)

\* the requests made by service calls, as opposed to the refreshes the 401
\* handler posts
Originals == {i \in 1..Len(reqs) : reqs[i].owner.kind = "op"}

RefreshRequests == {i \in 1..Len(reqs) : reqs[i].url = "/auth/refresh"}

\* C1: when two or more requests are in flight concurrently and each receives
\* a 401 while a refresh token is stored, exactly one request in total is sent
\* to the refresh endpoint.
C1_SingleRefresh ==
    \A i, j \in Originals :
        (i # j /\ reqs[i].st = "refreshing" /\ reqs[j].st = "refreshing")
        => Cardinality(RefreshRequests) = 1

\* requests i and j failed with 401 concurrently while a refresh token was
\* stored: each started a refresh, and j was on the wire before the 401 of i
\* was handled
Concurrent401(i, j) ==
    /\ i < j
    /\ reqs[i].child # 0
    /\ reqs[j].child # 0
    /\ j < reqs[i].child

Settled(i) == reqs[i].st \in {"resolved", "rejected"}

C3_OneRefreshPerRequest ==
    \A k \in 1..Len(ops) :
        Cardinality({i \in RefreshRequests : reqs[i].root = k}) <= 1

\* the requests to the refresh endpoint made on behalf of the call of request i
RefreshesFor(i) == {j \in RefreshRequests : reqs[j].root = reqs[i].root}

\* request i got a 401 on its first send while no refresh token was stored
Unauthorized401NoRefreshToken(i) ==
    /\ reqs[i].st = "rejected"
    /\ reqs[i].sends = 1
    /\ reqs[i].resp.status = 401
    /\ reqs[i].child = 0

\* C11: when a not-yet-retried request receives a 401 and no refresh token is
\* stored, no refresh request is sent and the request is rejected with the
\* original 401 failure, which the caller receives with status 401.
C11_NoRefreshTokenPropagates401 ==
    \A i \in Originals :
        Unauthorized401NoRefreshToken(i)
        => /\ RefreshesFor(i) = {}
           /\ reqs[i].err = AxiosError(reqs[i].resp)
           /\ ops[reqs[i].root].error = createAuthError(AxiosError(reqs[i].resp))

\* the part of C11 the interceptor does keep: no refresh request is sent
C11_NoRefreshSent ==
    \A i \in Originals : Unauthorized401NoRefreshToken(i) => RefreshesFor(i) = {}

\* the refresh requests the 401 handler of request i has made
ChildrenOf(i) ==
    {j \in 1..Len(reqs) : reqs[j].owner = [kind |-> "interceptor", id |-> i]}

\* the token store as a successful refresh response leaves it
TokensOf(token, t) ==
    [token        |-> token.accessToken,
     refreshToken |-> token.refreshToken,
     expiresAt    |-> t + token.expiresIn * 1000]

\* C12: when the refresh made for a request that got a 401 succeeds, that
\* step writes the new access token, refresh token and expiry to the token
\* store and re-sends the request with the new access token as bearer; a
\* request is sent at most twice, and a re-sent request that fails (with a
\* 401 too) is rejected with that failure, with one refresh made for it.
C12_RetryOnce ==
    /\ [](\A i \in 1..Len(reqs) :
            /\ reqs[i].sends <= 2
            /\ (reqs[i].sends = 2 /\ Settled(i)) => Cardinality(ChildrenOf(i)) = 1
            /\ (reqs[i].sends = 2 /\ reqs[i].st = "rejected")
                 => reqs[i].err = AxiosError(reqs[i].resp))
    /\ [][\A i \in 1..Len(reqs) :
            (reqs[i].st = "refreshing" /\ reqs'[i].st # "refreshing"
                /\ reqs'[reqs[i].child].st = "resolved")
            => LET token == reqs'[reqs[i].child].resp.data.token IN
               /\ getStoredTokens(cfg, storage', now) = TokensOf(token, now)
               /\ reqs'[i].st = "sent"
               /\ reqs'[i].sends = 2
               /\ reqs'[i].auth = token.accessToken]_vars

\* a request was re-sent with the new access token after a successful
\* refresh, got a 401 again and was rejected with it, one refresh made
C12_Witness ==
    \E i \in Originals :
        /\ reqs[i].sends = 2 /\ reqs[i].st = "rejected"
        /\ reqs[i].resp.status = 401
        /\ reqs[i].auth = AccessTok(2)
        /\ reqs[reqs[i].child].st = "resolved"
        /\ Cardinality(ChildrenOf(i)) = 1

\* the refresh made for request i is rejected in this step
RefreshFails(i) ==
    /\ reqs[i].st = "refreshing"
    /\ reqs'[reqs[i].child].st = "rejected"

\* what the 401 handler does when its refresh call is rejected: the token
\* store is cleared, the request is not re-sent and is rejected with the
\* failure of the refresh
C13_ClearsAndRejects ==
    [][\A i \in 1..Len(reqs) :
          RefreshFails(i)
          => /\ getStoredTokens(cfg, storage', now) = NoTokens
             /\ reqs'[i].st = "rejected"
             /\ reqs'[i].sends = 1
             /\ reqs'[i].err = reqs'[reqs[i].child].err]_vars

\* C13: when the refresh call made in response to a 401 fails, the token
\* store is cleared, the original request is not re-sent and is rejected,
\* and no further refresh call is made: the failed refresh call has set off
\* no refresh of its own.
C13_RefreshFailure ==
    /\ C13_ClearsAndRejects
    /\ [](\A i \in Originals :
            (reqs[i].child # 0 /\ reqs[reqs[i].child].resp.status \notin {NONE, 200})
            => ChildrenOf(reqs[i].child) = {})

\* the response to request i, other than a success or a 401, is handled in
\* this step
FailsOtherThan401(i) ==
    /\ reqs[i].st = "answered"
    /\ reqs'[i].st # "answered"
    /\ reqs[i].resp.status \notin {200, 401}

\* C14: a request of a service call that fails with anything other than 401
\* (no response, or another error status) sets off no refresh and no retry
\* and leaves the token store as it is; the call fails with an error that
\* has a code, a message and the status of the response, if there is one.
C14_OtherFailures ==
    [][\A i \in Originals :
          FailsOtherThan401(i)
          => /\ reqs'[i].st = "rejected"
             /\ Len(reqs') = Len(reqs)
             /\ reqs'[i].sends = reqs[i].sends
             /\ storage' = storage
             /\ LET e == ops'[reqs[i].root].error IN
                /\ ~ops'[reqs[i].root].success
                /\ e.code # ""
                /\ e.message # ""
                /\ e.status = reqs[i].resp.status]_vars

\* a call has failed on a 500 without a body: its error has the code
\* request_error, axios's message and status 500, and the tokens are still
\* stored
C14_Witness ==
    \E i \in Originals :
        /\ reqs[i].st = "rejected"
        /\ reqs[i].resp = [status |-> 500, data |-> NoData, body |-> NoBody]
        /\ ops[reqs[i].root].error =
              [message |-> "Request failed with status code",
               code |-> "request_error", status |-> 500]
        /\ getStoredTokens(cfg, storage, now).token = AccessTok(1)

-----------------------------------------------------------------------------
(* Properties of the AuthProvider (Spec).                                  *)

\* call k settles with outcome st in this step
Settles(k, st) ==
    /\ k \in 1..Len(ops')
    /\ ops'[k].st = st
    /\ k > Len(ops) \/ ops[k].st = "pending"

\* the request call k itself put on the wire
RequestOf(k) ==
    CHOOSE i \in 1..Len(reqs) : reqs[i].owner = [kind |-> "op", id |-> k]

TokensAfter == getStoredTokens(cfg', storage', now')

\* C4: when a refresh started by the refresh interval fails, the session of
\* a logged-in user is kept: user stays as it was and non-null,
\* isAuthenticated stays true, the token store keeps its tokens, and only
\* the error is set.
C4_TimerFailureKeepsSession ==
    [][\A k \in 1..Len(ops') :
          (ops'[k].origin = "timer" /\ Settles(k, "rejected") /\ isAuthenticated)
          => /\ user' = user
             /\ isAuthenticated'
             /\ TokensAfter = getStoredTokens(cfg, storage, now)
             /\ error' = ops'[k].error]_vars

\* C5: whenever a logout() call fails, in whatever state the session was,
\* the step that settles it leaves user null, isAuthenticated false and the
\* token store without access token, refresh token and expiry, and rejects
\* the call with the error made from the failure of its request.
C5_LogoutFailSafe ==
    [][\A k \in 1..Len(ops') :
          (ops'[k].name = "logout" /\ Settles(k, "rejected"))
          => /\ user' = NULL
             /\ ~isAuthenticated'
             /\ TokensAfter = NoTokens
             /\ ops'[k].error = createAuthError(reqs'[RequestOf(k)].err)
             /\ ops'[k].error # NullError]_vars

\* a logout() of a logged-in user, sent with the stored access token, has
\* failed and has left no user and no tokens
C5_Witness ==
    \E k \in 1..Len(ops) :
        /\ ops[k].name = "logout" /\ ops[k].st = "rejected"
        /\ reqs[RequestOf(k)].auth = AccessTok(1)
        /\ reqs[RequestOf(k)].resp.status = 500
        /\ user = NULL
        /\ getStoredTokens(cfg, storage, now) = NoTokens

HasRequest(k) == \E i \in 1..Len(reqs) : reqs[i].owner = [kind |-> "op", id |-> k]

\* C15: whenever a call (login, logout, refresh) fails after the server has
\* answered its request with an error status s (401 too) and a body
\* { message: m, code: c }, the error the call is rejected with has exactly
\* code c, message m and status s.
C15_ErrorFields ==
    [][\A k \in 1..Len(ops') :
          (/\ Settles(k, "rejected")
           /\ HasRequest(k)
           /\ reqs'[RequestOf(k)].resp.status \notin {NONE, 200}
           /\ reqs'[RequestOf(k)].resp.body # NoBody)
          => LET resp == reqs'[RequestOf(k)].resp IN
             ops'[k].error = [message |-> resp.body.message,
                              code    |-> resp.body.code,
                              status  |-> resp.status]]_vars

\* what a session shows once the { user, token } of a response is taken in
SignedIn(data) ==
    /\ TokensAfter = TokensOf(data.token, now)
    /\ user' = data.user
    /\ isAuthenticated'
    /\ IF cfg.autoRefresh
       THEN refreshIntervalRef' # 0 /\ intervals' = {refreshIntervalRef'}
       ELSE intervals' = {}

\* C16: whenever a login() or register() call succeeds, on every backend, the
\* step that settles it leaves the issued access token, refresh token and
\* the expiry in the token store, user equal to the issued user,
\* isAuthenticated true, the refresh interval running exactly when
\* autoRefresh is on, and the call's success callback invoked once with
\* that user.
C16_LoginSuccess ==
    [][\A k \in 1..Len(ops') :
          (ops'[k].name \in {"login", "register"} /\ Settles(k, "resolved"))
          => LET data == reqs'[RequestOf(k)].resp.data IN
             /\ SignedIn(data)
             /\ ops'[k].callbacks =
                   << Callback(IF ops'[k].name = "login" THEN "onLoginSuccess"
                               ELSE "onRegisterSuccess", data.user, NullError) >>]_vars

\* a login has succeeded with autoRefresh on: the tokens the server issued
\* are stored, the user is set and the refresh interval runs
C16_Witness ==
    \E k \in 1..Len(ops) :
        /\ ops[k].name = "login" /\ ops[k].st = "resolved"
        /\ cfg.autoRefresh
        /\ user = UserOf(srv.gen)
        /\ getStoredTokens(cfg, storage, now).token = AccessTok(srv.gen)
        /\ getStoredTokens(cfg, storage, now).refreshToken = RefreshTok(srv.gen)
        /\ intervals = {refreshIntervalRef}

Initializes == mounted = "no" /\ mounted' = "yes"

\* the stores hold an access token that has not expired, and a user
PersistedSession ==
    LET tokens == getStoredTokens(cfg, storage, now) IN
    /\ Truthy(tokens.token)
    /\ tokens.expiresAt # NONE
    /\ now < tokens.expiresAt
    /\ IsJSON(getItem(storage.localStorage, "auth_user"))

\* C18: on every backend, when the init effect finds a stored access token
\* that has not expired and a stored user, it sets user to the stored user,
\* so that isAuthenticated is true, and sends no request.
C18_InitValidToken ==
    [][(Initializes /\ PersistedSession)
          => /\ user' = JSONParse(getItem(storage.localStorage, "auth_user"))
             /\ isAuthenticated'
             /\ ~isLoading'
             /\ reqs' = <<>>
             /\ ops' = <<>>
             /\ storage' = storage]_vars

\* an AuthProvider mounted over an unexpired token, with a refresh token
\* stored too, has restored the user without a request or a call, and the
\* tokens are still stored
C18_Witness ==
    /\ mounted = "yes"
    /\ user = UserOf(1)
    /\ reqs = <<>>
    /\ ops = <<>>
    /\ getStoredTokens(cfg, storage, now).token = AccessTok(1)
    /\ getStoredTokens(cfg, storage, now).refreshToken = RefreshTok(1)
    /\ ~isTokenExpired(cfg, storage, now)

\* the stored access token has expired (or has no expiry) and a refresh
\* token is stored
ExpiredWithRefreshToken ==
    /\ isTokenExpired(cfg, storage, now)
    /\ Truthy(getStoredTokens(cfg, storage, now).refreshToken)

Cleared ==
    /\ user' = NULL
    /\ ~isAuthenticated'
    /\ TokensAfter = [token |-> NULL, refreshToken |-> NULL, expiresAt |-> NONE]
    /\ getItem(storage'.localStorage, "auth_user") = NULL
    /\ ~isLoading'

\* the init effect over an expired or missing-expiry token clears the
\* session at once and sends nothing when no refresh token is stored, and
\* the step that rejects the refresh it started clears the session
C20_InitClears ==
    [][/\ (Initializes /\ isTokenExpired(cfg, storage, now)
                       /\ ~Truthy(getStoredTokens(cfg, storage, now).refreshToken))
            => Cleared /\ reqs' = <<>> /\ error' = NullError
       /\ \A k \in 1..Len(ops') :
            (ops'[k].origin = "init" /\ Settles(k, "rejected"))
               => Cleared /\ error' = NullError]_vars

\* C20: the init effect over an expired or missing-expiry token ends with
\* user null, the token store empty and the persisted user removed: at once
\* and without a request when no refresh token is stored, and otherwise when
\* its refresh fails, after the one refresh request it made.
C20_InitExpired ==
    [][/\ (Initializes /\ isTokenExpired(cfg, storage, now)
                       /\ ~Truthy(getStoredTokens(cfg, storage, now).refreshToken))
            => Cleared /\ reqs' = <<>>
       /\ \A i \in 1..Len(reqs) :
            (/\ reqs[i].owner.kind = "op"
             /\ ops[reqs[i].owner.id].origin = "init"
             /\ reqs[i].st = "answered"
             /\ reqs[i].resp.status # 200
             /\ reqs'[i].st # "answered")
               => /\ ops'[reqs[i].owner.id].st = "rejected"
                  /\ Cleared
                  /\ Len(reqs') = 1]_vars

-----------------------------------------------------------------------------
(* Properties of the configuration (SpecConfig).                           *)

\* this step is a call of configureAuth
Configures == last'.n = last.n + 1

\* C21: a call of configureAuth with a tokenStorage other than localStorage,
\* sessionStorage, cookie and memory throws 'Invalid token storage type' and
\* leaves authConfig as it was.
C21_InvalidTokenStorage ==
    [][(/\ Configures
        /\ "tokenStorage" \in DOMAIN last'.config
        /\ last'.config.tokenStorage \notin ValidTokenStorage)
          => /\ last'.threw = "Invalid token storage type"
             /\ cfg' = cfg]_vars

\* a tokenStorage that is a non-empty string outside the four is refused,
\* and authConfig stays as it was
C21_NonEmptyRefused ==
    [][(/\ Configures
        /\ "tokenStorage" \in DOMAIN last'.config
        /\ last'.config.tokenStorage \notin ValidTokenStorage \cup {""})
          => /\ last'.threw = "Invalid token storage type"
             /\ cfg' = cfg]_vars

-----------------------------------------------------------------------------
(* Properties of the operations of useAuth() (SpecOps).                    *)

\* call k, made or continued in this step, is a resetPassword, verifyEmail
\* or resendCode: the step makes the call, or delivers the answer to a
\* request made on its behalf
PassThroughStep(k) ==
    /\ k \in 1..Len(ops')
    /\ ops'[k].name \in PassThrough
    /\ \/ k > Len(ops)
       \/ \E i \in 1..Len(reqs) :
             reqs[i].root = k /\ reqs[i].st = "answered" /\ reqs'[i].st # "answered"

\* C22: a step of resetPassword, verifyEmail or resendCode, the call or the
\* handling of an answer, successful or not, leaves user, isAuthenticated
\* and isLoading as they were; of the session state it changes error only.
C22_PassThroughFrame ==
    [][\A k \in 1..Len(ops') :
          PassThroughStep(k)
             => /\ user' = user
                /\ isAuthenticated' = isAuthenticated
                /\ isLoading' = isLoading
                /\ refreshIntervalRef' = refreshIntervalRef
                /\ intervals' = intervals]_vars

\* a verifyEmail made by a signed-in user has failed, and a resendCode made
\* after it has succeeded: the user is still signed in
C22_Witness ==
    /\ Len(ops) = 2
    /\ ops[1].name = "verifyEmail"
    /\ ops[1].st = "rejected"
    /\ ops[2].name = "resendCode"
    /\ ops[2].st = "resolved"
    /\ user = UserOf(1)
    /\ error = NullError

Operations ==
    {"login", "register", "logout", "refreshToken"} \cup PassThrough

\* C23: each of login, register, logout, refreshToken, resetPassword,
\* verifyEmail and resendCode called through useAuth() sets error to null in
\* the step that makes the call; the step in which the call fails leaves
\* error equal to the failure the call is rejected with; the step in which it
\* succeeds leaves error null, whatever an earlier call had left there.
C23_LastError ==
    [][\A k \in 1..Len(ops') :
          (ops'[k].name \in Operations /\ ops'[k].origin = "manual")
             => /\ (k > Len(ops) /\ ops'[k].st = "pending") => error' = NullError
                /\ Settles(k, "rejected")
                      => error' = ops'[k].error /\ error' # NullError
                /\ Settles(k, "resolved") => error' = NullError]_vars

\* a call has failed and left its failure in error, and the call made after
\* it has succeeded: error is null again
C23_Witness ==
    /\ Len(ops) = 2
    /\ ops[1].origin = "manual"
    /\ ops[1].st = "rejected"
    /\ ops[1].error # NullError
    /\ ops[2].origin = "manual"
    /\ ops[2].st = "resolved"
    /\ error = NullError

-----------------------------------------------------------------------------
(* Properties of the refresh interval (SpecTeardown).                      *)

\* logout call k has settled and no call has been made since
LogoutSettledLast(k) ==
    /\ k = Len(ops)
    /\ ops[k].name = "logout"
    /\ ops[k].st # "pending"

\* the step that settles a logout, and the step that unmounts the
\* AuthProvider, leave no interval scheduled
C24_StopsTimer ==
    [][/\ \A k \in 1..Len(ops') :
            (ops'[k].name = "logout" /\ (Settles(k, "resolved") \/ Settles(k, "rejected")))
               => intervals' = {} /\ refreshIntervalRef' = 0
       /\ (mounted = "yes" /\ mounted' = "gone")
            => intervals' = {} /\ refreshIntervalRef' = 0]_vars

\* after a logout has settled, with no call made since, no interval is
\* scheduled: also after a login or register that was in flight when the
\* logout settled has completed
C24_AfterLogout ==
    \A k \in 1..Len(ops) : LogoutSettledLast(k) => intervals = {}

\* after the AuthProvider has been unmounted no interval is scheduled: also
\* after a login or register that was in flight then has completed
C24_AfterUnmount ==
    mounted = "gone" => intervals = {}

\* C24: once a logout has settled (and no call has been made since), and
\* once the AuthProvider has been unmounted, no refresh interval is
\* scheduled, in every interleaving: also after a login or register that was
\* in flight at that moment has completed.
C24_NoTimerAfterTeardown ==
    /\ \A k \in 1..Len(ops) : LogoutSettledLast(k) => intervals = {}
    /\ mounted = "gone" => intervals = {}

-----------------------------------------------------------------------------
(* Properties of the credentials requests carry (SpecCsrf).                *)

\* every request put on the wire while an access token is stored carries
\* that token as its bearer token
C26_Bearer ==
    [][\A i \in 1..Len(reqs') :
          (i > Len(reqs) /\ Truthy(getStoredTokens(cfg, storage, now).token))
             => reqs'[i].auth = getStoredTokens(cfg, storage, now).token]_vars

\* the key of config.endpoints an operation's request is meant for
EndpointKey(url) ==
    CASE url = "/auth/login"          -> "login"
      [] url = "/auth/register"       -> "register"
      [] url = "/auth/logout"         -> "logout"
      [] url = "/auth/refresh"        -> "refresh"
      [] url = "/auth/password-reset" -> "passwordReset"
      [] url = "/auth/verify-email"   -> "verifyEmail"
      [] url = "/auth/resend-code"    -> "resendCode"

ConfiguredUrls ==
    {"/auth/login", "/auth/register", "/auth/logout", "/auth/refresh",
     "/auth/password-reset", "/auth/verify-email", "/auth/resend-code"}

\* C27: after any sequence of configureAuth calls, every request issued by
\* login, register, logout, refresh, resetPassword, verifyEmail or resendCode
\* targets the currently configured baseUrl joined with the currently
\* configured endpoint path, also when configureAuth was called after the
\* package module was loaded.
C27_ConfiguredTarget ==
    [][\A i \in 1..Len(reqs') :
          (i > Len(reqs) /\ reqs'[i].url \in ConfiguredUrls)
              => reqs'[i].target = getFullUrl(cfg, EndpointKey(reqs'[i].url))]_vars

\* What the requests of the default service target instead: the base URL
\* and the endpoint paths of the configuration at module load.
C27_LoadTimeTarget ==
    \A i \in 1..Len(reqs) :
        reqs[i].url \in ConfiguredUrls
            => reqs[i].target = getFullUrl(defaultConfig, EndpointKey(reqs[i].url))

Submits == last' # last /\ last'.op = "handleSubmit"

DecimalDigits == {"0", "1", "2", "3", "4", "5", "6", "7", "8", "9"}

SixDigits(code) == code \in [1..6 -> DecimalDigits]

\* C28: VerificationPrompt submits to verifyEmail only when the code is
\* exactly 6 decimal digits; any other code is rejected locally with
\* 'Code must be 6 digits', verifyEmail is not called and no request is made;
\* a later submission of a 6-digit code calls verifyEmail.
C28_SixDigitsOnly ==
    [][Submits =>
          IF SixDigits(prompt.code)
          THEN /\ Len(ops') = Len(ops) + 1
               /\ ops'[Len(ops')].name = "verifyEmail"
               /\ Len(reqs') = Len(reqs) + 1
               /\ reqs'[Len(reqs')].url = "/auth/verify-email"
               /\ reqs'[Len(reqs')].body = prompt.code
               /\ prompt'.validationError = NULL
          ELSE /\ prompt'.validationError = "Code must be 6 digits"
               /\ ops' = ops
               /\ reqs' = reqs]_vars

\* a 6-digit code was submitted after a rejected submission, and
\* verifyEmail was called with it
C28_Witness ==
    /\ last.op = "handleSubmit"
    /\ last.rejections = 1
    /\ SixDigits(last.code)
    /\ prompt.call # 0
    /\ ops[prompt.call].name = "verifyEmail"

\* call k invokes a callback prop in this step
Invokes(k) ==
    /\ k \in 1..Len(ops')
    /\ Len(ops'[k].callbacks) > (IF k <= Len(ops) THEN Len(ops[k].callbacks) ELSE 0)

\* C29: each observer callback is invoked only after the transition it
\* reports has been applied: onLoginSuccess and onRegisterSuccess find the
\* tokens and the user stored, onLoginError and onRegisterError find the
\* error set, onLogoutSuccess finds tokens and user cleared and the refresh
\* interval stopped; what the callback finds is what the step ends with.
C29_CallbackAfterTransition ==
    [][\A k \in 1..Len(ops') : Invokes(k) =>
          LET n        == Len(ops'[k].callbacks)
              callback == ops'[k].callbacks[n]
              seen     == ops'[k].seen[n]
          IN  /\ Len(ops'[k].seen) = n
              /\ callback.name \in {"onLoginSuccess", "onRegisterSuccess"} =>
                    /\ Truthy(seen.tokens.token)
                    /\ seen.tokens = TokensAfter
                    /\ seen.user = callback.user
                    /\ seen.user = user'
                    /\ seen.storedUser = ToStr(JSONStringify(callback.user))
              /\ callback.name \in {"onLoginError", "onRegisterError"} =>
                    /\ seen.error = callback.error
                    /\ seen.error # NullError
                    /\ seen.error = error'
              /\ callback.name = "onLogoutSuccess" =>
                    /\ seen.tokens = NoTokens
                    /\ seen.user = NULL
                    /\ seen.storedUser = NULL
                    /\ seen.refreshIntervalRef = 0
                    /\ seen.intervals = intervals']_vars

\* a success callback and then onLogoutSuccess have been invoked
C29_Witness ==
    \E k \in 1..Len(ops), j \in 1..Len(ops) :
        /\ k < j
        /\ Len(ops[k].callbacks) = 1
        /\ ops[k].callbacks[1].name \in {"onLoginSuccess", "onRegisterSuccess"}
        /\ Len(ops[j].callbacks) = 1
        /\ ops[j].callbacks[1].name = "onLogoutSuccess"

\* call k, a refresh made by the application or by the refresh interval
\* while a user is signed in, succeeds in this step
RefreshSucceeds(k) ==
    /\ Settles(k, "resolved")
    /\ ops'[k].name = "refreshToken"
    /\ ops'[k].origin \in {"manual", "timer"}
    /\ isAuthenticated

\* the tokens of the answer delivered in this step are the stored ones
NewTokensStored ==
    \E i \in 1..Len(reqs) :
        /\ reqs[i].st = "answered"
        /\ reqs'[i].st # "answered"
        /\ reqs[i].url = "/auth/refresh"
        /\ reqs[i].resp.status = 200
        /\ TokensAfter.token = reqs[i].resp.data.token.accessToken
        /\ TokensAfter.refreshToken = reqs[i].resp.data.token.refreshToken

\* C30: a successful refresh, manual or background, started while a user
\* is signed in ends with the user signed in (user non-null,
\* isAuthenticated true) and the new tokens stored, for every answer the
\* server may give to a refresh, also one with tokens and no user.
C30_RefreshKeepsUser ==
    [][\A k \in 1..Len(ops') :
          RefreshSucceeds(k) => /\ user' # NULL
                                /\ isAuthenticated'
                                /\ NewTokensStored]_vars

\* The same when the answer carries the user.
C30_RefreshWithUser ==
    [][\A k \in 1..Len(ops') :
          (/\ RefreshSucceeds(k)
           /\ \A i \in 1..Len(reqs) :
                 (reqs[i].st = "answered" /\ reqs[i].url = "/auth/refresh")
                     => reqs[i].resp.data.user # UNDEFINED)
              => /\ user' # NULL
                 /\ isAuthenticated'
                 /\ NewTokensStored]_vars

\* The tokens are stored whatever the answer carries.
C30_TokensStored ==
    [][\A k \in 1..Len(ops') : RefreshSucceeds(k) => NewTokensStored]_vars

\* C26: every request put on the wire while an access token is stored
\* carries that token as its bearer token, and every request put on the wire
\* while an anti-forgery token is known (set with setCsrfToken, or in the
\* page's meta tag or cookie) carries it in the X-CSRF-Token header.
C26_Credentials ==
    [][\A i \in 1..Len(reqs') :
          i > Len(reqs)
             => /\ Truthy(getStoredTokens(cfg, storage, now).token)
                      => reqs'[i].auth = getStoredTokens(cfg, storage, now).token
                /\ Truthy(getCsrfToken(csrf, storage, now).value)
                      => reqs'[i].csrf = getCsrfToken(csrf, storage, now).value]_vars

\* the direct logout() carries the anti-forgery token when one is known
C26_DirectLogoutCsrf ==
    [][\A i \in 1..Len(reqs') :
          (/\ i > Len(reqs)
           /\ reqs'[i].owner.kind = "direct"
           /\ Truthy(getCsrfToken(csrf, storage, now).value))
             => reqs'[i].csrf = getCsrfToken(csrf, storage, now).value]_vars

\* a login, register, logout or refreshToken call is in flight
InFlight ==
    \E k \in 1..Len(ops) :
        /\ ops[k].st = "pending"
        /\ ops[k].name \in {"login", "register", "logout", "refreshToken"}

\* C31: once the provider is initialized, isLoading is true in every state
\* in which a login, register, logout or refreshToken call (the refresh
\* started by initialization included) is in flight, and false in every
\* state in which none is.
C31_LoadingWhileInFlight == mounted = "yes" => (isLoading <=> InFlight)

\* The same for sessions whose initialization started no refresh.
C31_LoadingNoInitRefresh ==
    (mounted = "yes" /\ \A k \in 1..Len(ops) : ops[k].origin # "init")
        => (isLoading <=> InFlight)


\* what getStoredTokens() returns on backend b: the access token, the
\* refresh token, and whether an expiry is stored
Reads(b) ==
    LET t == getStoredTokens(On(b), storage, now) IN
    [token |-> t.token, refreshToken |-> t.refreshToken,
     expiry |-> t.expiresAt # NONE]

\* C32: starting from an empty store, the same sequence of storeTokens and
\* clearTokens calls yields the same getStoredTokens() result (access token,
\* refresh token, presence of an expiry) on localStorage, sessionStorage,
\* cookie and memory.
C32_Interchangeable == \A b1, b2 \in Backends : Reads(b1) = Reads(b2)

\* The same when every storeTokens call was given a refresh token.
C32_NoneOmitted == ~last.omitted => C32_Interchangeable

\* The same for the two Web Storage backends alone.
C32_WebStorage == Reads("localStorage") = Reads("sessionStorage")

\* The same for the three backends that are not cookies, when every
\* storeTokens call was given a refresh token.
C32_NotCookie ==
    ~last.omitted => \A b1, b2 \in Backends \ {"cookie"} : Reads(b1) = Reads(b2)

\* storeTokens was the last call made, and the clock has not moved since
JustStored == last.op = "storeTokens" /\ last.at = now

\* the lifetime a storeTokens call is meant to use
Lifetime(expiresIn) == IF expiresIn # NONE THEN expiresIn ELSE cfg.tokenExpiration

\* C33: storeTokens computes expiresAt = now + L * 1000, where L is the
\* lifetime supplied whenever one is supplied (0 included) and the
\* configured tokenExpiration only when none is supplied.
C33_ExpiresAt ==
    JustStored => getStoredTokens(cfg, storage, now).expiresAt
                      = now + Lifetime(last.expiresIn) * 1000

\* The same for the calls that supply no lifetime or a positive one.
C33_ExpiresAtNonZero ==
    (JustStored /\ last.expiresIn # 0)
        => getStoredTokens(cfg, storage, now).expiresAt
               = now + Lifetime(last.expiresIn) * 1000

\* After a successful login, register or refresh the stored expiresAt is
\* the one computed from the answer just handled.
C33_FreshAfterIssue ==
    [][\A k \in 1..Len(ops') :
          (/\ Settles(k, "resolved")
           /\ ops'[k].name \in {"login", "register", "refreshToken"})
              => TokensAfter.expiresAt = now + ServerLifetime * 1000]_vars

\* a logout has settled and no login or register was started after it
LoggedOut ==
    \E k \in 1..Len(ops) :
        /\ ops[k].name = "logout"
        /\ ops[k].st # "pending"
        /\ \A j \in (k + 1)..Len(ops) : ops[j].name \notin {"login", "register"}

\* C34: once logout() has settled, user stays null and the token store
\* stays empty until a later login or register is started; a refresh that
\* was in flight when logout ran does not bring tokens or user back when
\* its answer arrives.
C34_StaysLoggedOut ==
    LoggedOut => /\ user = NULL
                 /\ getStoredTokens(cfg, storage, now) = NoTokens

\* a logout was called while a refresh was in flight, and both have settled
C34_Overlap ==
    \E k \in 1..Len(ops) : \E j \in 1..(k - 1) :
        /\ ops[k].name = "logout" /\ ops[k].st # "pending"
        /\ ops[j].name = "refreshToken" /\ ops[j].st = "resolved"
        /\ \E i \in 1..Len(reqs) :
              /\ reqs[i].owner = [kind |-> "op", id |-> j]
              /\ reqs[i].resp.status = 200

\* no call made through the provider is in flight
Idle == \A k \in 1..Len(ops) : ops[k].st # "pending"

\* C35: whenever no operation is in flight and isAuthenticated is true, the
\* token store holds an access token.
C35_AuthenticatedHasToken ==
    (Idle /\ isAuthenticated)
        => Truthy(getStoredTokens(cfg, storage, now).token)

\* a resetPassword, verifyEmail or resendCode call has failed and left the
\* user signed in over an empty token store
C35_PassThroughClears ==
    /\ Idle
    /\ isAuthenticated
    /\ getStoredTokens(cfg, storage, now) = NoTokens
    /\ \E k \in 1..Len(ops) : ops[k].name \in PassThrough /\ ops[k].st = "rejected"

\* The same as long as the server has answered no request with 401.
C35_Without401 ==
    (/\ Idle
     /\ isAuthenticated
     /\ \A i \in 1..Len(reqs) : reqs[i].resp.status # 401 /\ ~reqs[i].retry)
        => Truthy(getStoredTokens(cfg, storage, now).token)

RECURSIVE SendsFrom(_, _)
\* how many times a request made for call k has been put on the wire,
\* counting the requests from index i on
SendsFrom(k, i) ==
    IF i > Len(reqs) THEN 0
    ELSE (IF reqs[i].root = k THEN reqs[i].sends ELSE 0) + SendsFrom(k, i + 1)

\* C36: every refresh attempt terminates: when the server answers every
\* request, with any status, a call settles after a bounded number of
\* requests: three, the request itself, one refresh and one retry.
C36_BoundedSends == \A k \in 1..Len(ops) : SendsFrom(k, 1) <= 3

\* The same as long as no refresh request has been answered 401.
C36_BoundedUnlessRefresh401 ==
    (\A i \in RefreshRequests : reqs[i].resp.status # 401)
        => \A k \in 1..Len(ops) : SendsFrom(k, 1) <= 3

\* a call is still pending with every request of the run used up on it
C36_StillPending ==
    \E k \in 1..Len(ops) :
        /\ ops[k].st = "pending"
        /\ SendsFrom(k, 1) > 3
        /\ \A i \in RefreshesFor(Len(reqs)) : reqs[i].resp.status \in {401, NONE}

\* C37: at most one refresh interval is scheduled at any time, after any
\* sequence of initialization, login, register, logout and teardown: an
\* interval that is started is the only one there is, the one the provider
\* remembers, and none is scheduled while autoRefresh is off.
C37_OneTimer ==
    [][/\ Cardinality(intervals') <= 1
       /\ intervals' \subseteq {refreshIntervalRef'}
       /\ (intervals' \ intervals # {}) => intervals' \cap intervals = {}
       /\ ~cfg.autoRefresh => intervals' = {}]_vars

\* an interval has been replaced by a second one
C37_Witness == intervals = {2} /\ refreshIntervalRef = 2

\* the answer handled in this step
Handled == CHOOSE i \in 1..Len(reqs) : reqs[i].st = "answered" /\ reqs'[i].st # "answered"

\* login or register call k succeeds in this step, after another one did
SecondSuccess(k) ==
    /\ Settles(k, "resolved")
    /\ ops'[k].name \in {"login", "register"}
    /\ \E j \in 1..Len(ops) :
          j # k /\ ops[j].name \in {"login", "register"} /\ ops[j].st = "resolved"

\* the stored value of a token field of an answer
StoredAs(v) == IF v = UNDEFINED THEN NULL ELSE v

\* C38: when two login or register calls overlap and both succeed, after
\* both have settled the user and the stored tokens come from the same
\* answer, the one handled last.
C38_LastWins ==
    [][\A k \in 1..Len(ops') : SecondSuccess(k) =>
          LET data == reqs[Handled].resp.data IN
          /\ user' = data.user
          /\ TokensAfter.token = data.token.accessToken
          /\ TokensAfter.refreshToken = StoredAs(data.token.refreshToken)]_vars

\* The same when every answer carries a refresh token.
C38_LastWinsWithRefreshToken ==
    [][\A k \in 1..Len(ops') :
          (SecondSuccess(k) /\ reqs[Handled].resp.data.token.refreshToken # UNDEFINED)
              => LET data == reqs[Handled].resp.data IN
                 /\ user' = data.user
                 /\ TokensAfter.token = data.token.accessToken
                 /\ TokensAfter.refreshToken = data.token.refreshToken]_vars

\* two calls overlapped and the first one's answer was handled last
C38_Overlapped ==
    /\ Len(ops) = 2 /\ ops[1].st = "resolved" /\ ops[2].st = "resolved"
    /\ reqs[1].resp.data.token.accessToken = AccessTok(2)
    /\ getStoredTokens(cfg, storage, now).token = AccessTok(2)

\* C39: the logout the package exports for direct use clears the token
\* store whether the call to the logout endpoint succeeds or fails.
C39_ServiceLogoutClears ==
    [][\A k \in 1..Len(ops') :
          (Settles(k, "resolved") /\ ops'[k].name = "serviceLogout")
              => TokensAfter = NoTokens]_vars

\* The same for the successful calls.
C39_ClearsOnSuccess ==
    [][\A k \in 1..Len(ops') :
          (/\ Settles(k, "resolved")
           /\ ops'[k].name = "serviceLogout"
           /\ ops'[k].success)
              => TokensAfter = NoTokens]_vars

\* The logout of the direct API (api/authService) clears the token store
\* when its request settles, whatever the answer.
C39_DirectLogoutClears ==
    [][\A i \in 1..Len(reqs) :
          (/\ reqs[i].owner.kind = "direct"
           /\ reqs[i].st = "answered"
           /\ reqs'[i].st \in {"resolved", "rejected"})
              => TokensAfter = NoTokens]_vars

\* base and path joined with exactly one slash
JoinedOnce(base, path) ==
    StripTrailingSlashes(base) \o <<"/">> \o StripLeading(path)

EndpointKeys == DOMAIN defaultConfig.endpoints

\* C40: after any sequence of configureAuth calls, getFullUrl(e) joins the
\* current baseUrl and the path of every endpoint e with exactly one
\* slash, never two and never none.
C40_ExactlyOneSlash ==
    \A e \in EndpointKeys :
        getFullUrl(cfg, e) = JoinedOnce(cfg.baseUrl, cfg.endpoints[e])

\* The same after the first configureAuth call.
C40_FirstCall ==
    last.n <= 1 => C40_ExactlyOneSlash

\* Never two slashes at the join.
C40_NoDoubleSlash ==
    \A e \in EndpointKeys :
        ~(EndsWithSlash(cfg.baseUrl) /\ StartsWithSlash(cfg.endpoints[e]))

\* the endpoint paths are the ones configureAuth was given, or the defaults
C40_PathsKept ==
    \A e \in EndpointKeys :
        cfg.endpoints[e] \in {defaultConfig.endpoints[e], CustomEndpoints[e]}

=============================================================================
